---- MODULE Spec2Model ----
(***************************************************************************)
(* Race-results ingestion of strava_visualizer: the Sporthive importer     *)
(* (server/sporthive.js and its offset-based revision), the RaceResult     *)
(* importer (server/raceresult.js), the PDF batch import                   *)
(* (import-csilo-2025.js) and the race_events / race_finishers tables they *)
(* write.  Every await of a handler is one step of a process.              *)
(***************************************************************************)
EXTENDS Integers, Sequences, FiniteSets, TLC

VARIABLES
    race_events,          \* table race_events: a set of rows
    race_finishers,       \* table race_finishers: a set of rows
    race_events_id_seq,   \* the SERIAL behind race_events.id
    clock,                \* number of invocations started (NOW() of an insert)
    pc,                   \* pc[p]: the await a handler invocation is at
    args,                 \* args[p]: the arguments of the invocation
    loc,                  \* loc[p]: the handler's local variables
    reqLog,               \* reqLog[p]: upstream requests of the invocation, in order
    result,               \* result[p]: what the invocation returned or threw
    snap,                 \* snap[p]: the tables as they were when it was called
    athletes,             \* table athletes, by strava_id
    activities,           \* table activities
    gear,                 \* table gear
    streams,              \* table streams
    strava                \* the requests Strava received, in order

vars == <<race_events, race_finishers, race_events_id_seq, clock, pc, args,
          loc, reqLog, result, snap, athletes, activities, gear, streams, strava>>

---------------------------------------------------------------------------
(* Program constants *)

PAGE_SIZE == 100
PAGE_SIZE_OFFSET == 50
BATCH == 50
RR_PAGE_SIZE == 500

candidates == <<"Online|Final", "Results|All", "Online|Results", "Results|Final", "Online|All">>

RaceKeys == <<"hm", "5k">>
EVENT_ID == "csilo-2025"

(* Bounds of the model *)

MaxInvocations == 2
MaxReq == 5
MaxCrawls == 2
MaxOverlapping == 3
MaxRuns == 2

Procs == {1, 2}
Endless == 0 - 1

---------------------------------------------------------------------------
(* Helpers *)

Min(a, b) == IF a < b THEN a ELSE b
Max(a, b) == IF a > b THEN a ELSE b

\* Array.prototype.slice(from, to) on a 0-based array
slice(s, from, to) ==
    SubSeq(s, from + 1, Min(to, Len(s)))

Range(s) == {s[k] : k \in 1..Len(s)}

\* null, and the empty string, where a name is expected
NoName == ""

\* null, and the empty string, where a category / age group is expected
NoCategory == ""

\* The category labels of the rows of a source, by position
CategoryAt(n) == IF n % 2 = 0 THEN "F30-34" ELSE "M30-34"

\* A source row after the adapter's normalisation: grp is the contest / race
\* key it is listed under, n its position there; rank 0 stands for no rank,
\* chipTime 0 for no chip time
SourceRow(grp, n, bib, name, chipTime) ==
    [grp |-> grp, n |-> n, bib |-> bib, name |-> name, chipTime |-> chipTime, rank |-> 0,
     category |-> CategoryAt(n)]

\* An ordinary row: named, its position as bib, later rows slower
Row(grp, n) == SourceRow(grp, n, ToString(n), "Runner", 3600 + n)

\* What an upstream holding `total` rows (Endless: it never runs dry), the
\* first `nameless` of them without any name field and without a category,
\* answers to a request for `count` rows from `offset`
RowsAt(total, offset, count, nameless) ==
    LET m == IF total = Endless THEN count
             ELSE Max(0, Min(count, total - offset))
    IN  [k \in 1..m |->
            IF offset + k <= nameless
            THEN [Row("", offset + k) EXCEPT !.name = NoName, !.category = NoCategory]
            ELSE Row("", offset + k)]

NoRow == [id |-> 0, sporthive_event_id |-> "", sporthive_race_id |-> "",
          total_finishers |-> 0, imported_at |-> 0]

NoRace == ""

\* The one athlete of the sessions
ATHLETE == 1

\* The athletes row as the schema creates it: last_sync_at NULL (0 here);
\* synced_by is the invocation that wrote last_sync_at, access_token the
\* invocation that stored the token
NoSync == [last_sync_at |-> 0, synced_by |-> 0, access_token |-> 0]

\* The athlete object a handler is given: the row getAthlete read, of which
\* the handlers use last_sync_at and whether token_expires_at has passed
NoAthlete == [last_sync_at |-> 0, expired |-> FALSE]

NoArgs == [kind |-> "", entry |-> "", eventId |-> "", raceId |-> NoRace,
           urlRaceId |-> NoRace, explicitRaceId |-> NoRace,
           replace |-> FALSE, source |-> <<>>, nameless |-> 0, lists |-> {},
           listname |-> "", text |-> <<>>, inv |-> 0,
           athlete |-> NoAthlete, activityId |-> 0, total |-> 0,
           id |-> 0, bib |-> ""]

NoLoc == [existing |-> NoRow, finishers |-> <<>>, page |-> 0, offset |-> 0,
          i |-> 0, inserted |-> 0, raceEventId |-> 0, raceIdx |-> 0,
          cand |-> 1, listname |-> "", dataFields |-> 0, groupFilters |-> <<>>,
          contest |-> 1, crawled |-> FALSE, slept |-> FALSE, finisher |-> <<>>]

NoResult == [ok |-> FALSE, already_imported |-> FALSE, needs_race_selection |-> FALSE,
             returned |-> FALSE, threw |-> FALSE, at |-> "",
             race_event_id |-> 0, total_finishers |-> 0,
             age_group_breakdown |-> <<>>, sample |-> <<>>,
             cached |-> FALSE, streams |-> {}, newActivities |-> 0]

PageSizeOf(kind) == IF kind = "sporthive" THEN PAGE_SIZE ELSE PAGE_SIZE_OFFSET

\* The race id an invocation is working on: the PDF batch walks the race keys
CurRaceId(p) ==
    IF args[p].kind = "pdf" THEN RaceKeys[loc[p].raceIdx] ELSE args[p].raceId

\* Rows of race_events for a (source-event-id, source-race-id) pair
EventsOf(events, eid, rid) ==
    {e \in events : e.sporthive_event_id = eid /\ e.sporthive_race_id = rid}

FinishersOf(finishers, events) ==
    {f \in finishers : f.race_event_id \in {e.id : e \in events}}

---------------------------------------------------------------------------
(* Leaving a handler *)

Return(p, r) ==
    /\ pc' = [pc EXCEPT ![p] = "done"]
    /\ result' = [result EXCEPT ![p] = r]

Throw(p, at) ==
    Return(p, [NoResult EXCEPT !.threw = TRUE, !.at = at])

Continue(p, label) ==
    /\ pc' = [pc EXCEPT ![p] = label]
    /\ UNCHANGED result

Enter(p, label) ==
    /\ pc' = [pc EXCEPT ![p] = label]
    /\ result' = [result EXCEPT ![p] = NoResult]

---------------------------------------------------------------------------
(* The schema's constraints on the two race tables *)

\* Mutant: the table has no unique constraint on the pair
UniqueNotEnforced(events, eid, rid) ==
    FALSE

\* UNIQUE(sporthive_event_id, sporthive_race_id)
UniqueViolation(events, eid, rid) ==
    EventsOf(events, eid, rid) # {}

\* race_event_id INT REFERENCES race_events(id)
ForeignKeyViolation(events, id) ==
    id \notin {e.id : e \in events}

\* ... ON DELETE CASCADE: the finishers left once event `id` is deleted
CascadeDelete(finishers, id) ==
    {f \in finishers : f.race_event_id # id}

\* One request of an invocation as the upstream sees it: what was asked, what
\* came back (len is -1 when fetch threw), and whether the invocation slept
\* RATE_LIMIT_MS since its previous request
Request(l, op, arg, len, rows, status) ==
    [op |-> op, arg |-> arg, len |-> len, rows |-> rows, status |-> status,
     waited |-> l.slept]

---------------------------------------------------------------------------
(* Calling a handler *)

Begin(p, a) ==
    /\ pc[p] \in {"idle", "done"}
    /\ clock' = clock + 1
    /\ args' = [args EXCEPT ![p] = [a EXCEPT !.inv = clock + 1]]
    /\ reqLog' = [reqLog EXCEPT ![p] = <<>>]
    /\ snap' = [snap EXCEPT ![p] = [events |-> race_events, finishers |-> race_finishers,
                                    streams |-> streams]]
    /\ UNCHANGED <<race_events, race_finishers, race_events_id_seq,
                   athletes, activities, gear, streams, strava>>

\* The race id importRace works on: server/sporthive.js takes it from the URL
\* and has no raceId argument; its revision has
\* const raceId = explicitRaceId || parsedRaceId
RaceIdOf(kind, rid, explicit) ==
    IF kind = "sporthive" THEN rid
    ELSE IF explicit # NoRace THEN explicit ELSE rid

\* importRace of server/sporthive.js (kind "sporthive": the URL must hold a
\* race id) and of its revision (kind "sporthive_offset": without a race id it
\* lists the event's races)
\* `rid` is the race id the URL embeds and `explicit` the raceId argument,
\* each NoRace when there is none
importRace(p, kind, eid, rid, explicit, replace, total, nameless) ==
    /\ Begin(p, [NoArgs EXCEPT !.kind = kind, !.entry = "importRace", !.eventId = eid,
                                !.raceId = RaceIdOf(kind, rid, explicit),
                                !.urlRaceId = rid, !.explicitRaceId = explicit,
                                !.replace = replace, !.source = <<total>>,
                                !.nameless = nameless])
    /\ loc' = [loc EXCEPT ![p] = NoLoc]
    /\ IF kind = "sporthive" /\ rid = NoRace THEN Throw(p, "locator")
       ELSE IF RaceIdOf(kind, rid, explicit) # NoRace THEN Enter(p, "check")
       ELSE Enter(p, "event_races")

\* fetchEventRaces, and the needs_race_selection return of importRace
FetchEventRaces(p) ==
    /\ pc[p] = "event_races"
    /\ reqLog' = [reqLog EXCEPT ![p] =
                    Append(@, Request(loc[p], "races", 0, 0, <<>>, 200))]
    /\ Return(p, [NoResult EXCEPT !.needs_race_selection = TRUE])
    /\ UNCHANGED <<race_events, race_finishers, race_events_id_seq, clock, athletes, activities, gear, streams, strava, args, loc, snap>>

FetchEventRacesFails(p) ==
    /\ pc[p] = "event_races"
    /\ reqLog' = [reqLog EXCEPT ![p] =
                    Append(@, Request(loc[p], "races", 0, 0 - 1, <<>>, 500))]
    /\ Throw(p, "upstream")
    /\ UNCHANGED <<race_events, race_finishers, race_events_id_seq, clock, athletes, activities, gear, streams, strava, args, loc, snap>>

\* fetchAllFinishers called on its own, against a source of `total` rows
fetchAllFinishers(p, kind, total) ==
    /\ Begin(p, [NoArgs EXCEPT !.kind = kind, !.entry = "fetchAllFinishers",
                                !.eventId = "1", !.raceId = "1", !.source = <<total>>])
    /\ loc' = [loc EXCEPT ![p] = NoLoc]
    /\ Enter(p, "crawl")

---------------------------------------------------------------------------
(* Existing-import check *)

\* Mutant: the PDF batch leaves an imported race as it is
AlreadyImportedPdf(kind, existing, replace) ==
    existing.id # 0 /\ (kind = "pdf" \/ ~replace)

\* Mutant: the early return is taken when replace is set
AlreadyImportedOnReplace(kind, existing, replace) ==
    kind # "pdf" /\ existing.id # 0 /\ replace

\* Mutant: no early return at all
AlreadyImportedNever(kind, existing, replace) ==
    FALSE

\* if (existing && !replace) return { ok: false, already_imported: true, ... }
AlreadyImported(kind, existing, replace) ==
    kind # "pdf" /\ existing.id # 0 /\ ~replace

\* Mutant: the prior import is deleted right after the check, before the crawl
AfterCheckPcDeleteFirst(kind, existing) ==
    IF existing.id # 0 THEN "delete_finishers"
    ELSE CASE kind = "pdf" -> "insert_event"
           [] kind = "raceresult" -> "discover"
           [] OTHER -> "crawl"

\* The first await after the check
AfterCheckPc(kind, existing) ==
    CASE kind = "pdf" -> IF existing.id # 0 THEN "delete_finishers" ELSE "insert_event"
      [] kind = "raceresult" -> "discover"
      [] OTHER -> "crawl"

\* queryOne(SELECT id, total_finishers FROM race_events WHERE ...)
CheckExisting(p) ==
    /\ pc[p] = "check"
    /\ LET rows == EventsOf(race_events, args[p].eventId, CurRaceId(p))
       IN  \E existing \in (IF rows = {} THEN {NoRow} ELSE rows) :
             /\ loc' = [loc EXCEPT ![p].existing = existing]
             /\ IF AlreadyImported(args[p].kind, existing, args[p].replace)
                THEN Return(p, [NoResult EXCEPT !.already_imported = TRUE,
                                                !.race_event_id = existing.id,
                                                !.total_finishers = existing.total_finishers])
                ELSE Continue(p, AfterCheckPc(args[p].kind, existing))
    /\ UNCHANGED <<race_events, race_finishers, race_events_id_seq, clock, athletes, activities, gear, streams, strava, args, reqLog, snap>>

---------------------------------------------------------------------------
(* Sporthive crawl *)

\* Mutant: the event row is deleted first, its finishers left to the cascade
AfterCrawlPcEventFirst(existing, replace) ==
    IF existing.id # 0 /\ replace THEN "delete_event" ELSE "insert_event"

\* if (existing && replace) { DELETE ...; DELETE ... }
AfterCrawlPc(existing, replace) ==
    IF existing.id # 0 /\ replace THEN "delete_finishers" ELSE "insert_event"

\* Mutant: an empty crawl is stored like any other
AfterCrawlNoEmptyCheck(p, l) ==
    /\ loc' = [loc EXCEPT ![p] = l]
    /\ IF args[p].entry = "fetchAllFinishers"
       THEN Return(p, [NoResult EXCEPT !.returned = TRUE, !.total_finishers = Len(l.finishers)])
       ELSE Continue(p, AfterCrawlPc(l.existing, args[p].replace))

\* What follows the return of fetchAllFinishers, up to the next await
AfterCrawl(p, l) ==
    /\ loc' = [loc EXCEPT ![p] = l]
    /\ IF args[p].entry = "fetchAllFinishers"
       THEN Return(p, [NoResult EXCEPT !.returned = TRUE, !.total_finishers = Len(l.finishers)])
       ELSE IF Len(l.finishers) = 0
       THEN Throw(p, "empty")
       ELSE Continue(p, AfterCrawlPc(l.existing, args[p].replace))

\* The offset in the source's rows that a request asks for
RequestOffset(kind, l) ==
    IF kind = "sporthive" THEN l.page * PAGE_SIZE ELSE l.offset

\* page++ (offset += batch.length in the revision), then the politeness delay
NextPage(kind, l, n) ==
    IF kind = "sporthive" THEN [l EXCEPT !.page = @ + 1, !.slept = TRUE]
    ELSE [l EXCEPT !.offset = @ + n, !.slept = TRUE]

\* Mutant: the loop ends on an empty page only
CrawlStopsOnEmpty(n, pageSize) ==
    n = 0

\* if (!batch.length) break; ... if (batch.length < PAGE_SIZE) break;
CrawlStops(n, pageSize) ==
    n = 0 \/ n < pageSize

\* all.push(...batch)
Push(all, batch) ==
    all \o batch

\* One turn of the while loop of fetchAllFinishers with a 2xx answer
FetchPage(p) ==
    /\ pc[p] = "crawl"
    /\ Len(reqLog[p]) < MaxReq
    /\ LET a == args[p]
           l == loc[p]
           pageSize == PageSizeOf(a.kind)
           at == RequestOffset(a.kind, l)
           batch == RowsAt(a.source[1], at, pageSize, a.nameless)
           all == IF Len(batch) = 0 THEN l.finishers ELSE Push(l.finishers, batch)
       IN  /\ reqLog' = [reqLog EXCEPT ![p] =
                            Append(@, Request(l, "page", at, Len(batch), batch, 200))]
           /\ IF CrawlStops(Len(batch), pageSize)
              THEN AfterCrawl(p, [l EXCEPT !.finishers = all, !.crawled = TRUE,
                                           !.slept = FALSE])
              ELSE /\ loc' = [loc EXCEPT ![p] =
                                NextPage(a.kind, [l EXCEPT !.finishers = all], Len(batch))]
                   /\ UNCHANGED <<pc, result>>
    /\ UNCHANGED <<race_events, race_finishers, race_events_id_seq, clock, athletes, activities, gear, streams, strava, args, snap>>

\* ... with a non-2xx answer or a timeout: fetchPage throws
FetchPageFails(p) ==
    /\ pc[p] = "crawl"
    /\ Len(reqLog[p]) < MaxReq
    /\ reqLog' = [reqLog EXCEPT ![p] =
                    Append(@, Request(loc[p], "page", RequestOffset(args[p].kind, loc[p]),
                                      0 - 1, <<>>, 500))]
    /\ Throw(p, "upstream")
    /\ UNCHANGED <<race_events, race_finishers, race_events_id_seq, clock, athletes, activities, gear, streams, strava, args, loc, snap>>

\* Mutant: a 404 is an error like any other status
EndOfDataNever(status) ==
    FALSE

\* if (res.status === 404) return [];
EndOfData(status) ==
    status = 404

\* ... with a 404 answer
FetchPageNotFound(p) ==
    /\ pc[p] = "crawl"
    /\ Len(reqLog[p]) < MaxReq
    /\ LET l == loc[p]
           at == RequestOffset(args[p].kind, l)
       IN  IF EndOfData(404)
           THEN /\ reqLog' = [reqLog EXCEPT ![p] = Append(@, Request(l, "page", at, 0, <<>>, 404))]
                /\ AfterCrawl(p, [l EXCEPT !.crawled = TRUE, !.slept = FALSE])
           ELSE /\ reqLog' = [reqLog EXCEPT ![p] =
                                Append(@, Request(l, "page", at, 0 - 1, <<>>, 404))]
                /\ Throw(p, "upstream")
                /\ UNCHANGED loc
    /\ UNCHANGED <<race_events, race_finishers, race_events_id_seq, clock, athletes, activities, gear, streams, strava, args, snap>>

---------------------------------------------------------------------------
(* RaceResult crawl *)

\* A contest as the upstream lists it: its name, the number of data rows of
\* its named subgroup, the positions of the rows without a name, whether each
\* page ends with the [totalCount] row, and the bibs and chip times of its
\* first rows where they are not the ordinary ones
Contest(name, rows, unnamed, sentinel, bibs, times) ==
    [name |-> name, rows |-> rows, unnamed |-> unnamed, sentinel |-> sentinel,
     bibs |-> bibs, times |-> times]

ContestName(c) == IF c = 1 THEN "Run" ELSE "Wheelchair"

\* An ordinary contest: every row named, every page with its total count
Plain(c, rows) == Contest(ContestName(c), rows, {}, TRUE, <<>>, <<>>)

\* Data row k of a contest; every tenth row has an empty age-group column
RawRow(d, k) ==
    [SourceRow(d.name, k,
               IF k <= Len(d.bibs) THEN d.bibs[k] ELSE ToString(k),
               IF k \in d.unnamed THEN NoName ELSE "Runner",
               IF k <= Len(d.times) THEN d.times[k] ELSE 3600 + k)
        EXCEPT !.category = IF k % 10 = 0 THEN NoCategory ELSE @]

\* The data rows of page `page` (1-based, num_results = PAGE_SIZE) of a contest
ContestRows(d, page) ==
    LET from == (page - 1) * RR_PAGE_SIZE
        m == Max(0, Min(RR_PAGE_SIZE, d.rows - from))
    IN  [k \in 1..m |-> RawRow(d, from + k)]

\* if (!name) continue; // skip bib-only rows
extractFinishers(rows) ==
    SelectSeq(rows, LAMBDA r : r.name # NoName)

\* The largest single-element row of the page, 0 when the page has none
TotalInPage(d) ==
    IF d.sentinel THEN d.rows ELSE 0

\* const key = `${f.contest}:${f.bib}`
DedupKey(f) ==
    f.grp \o ":" \o f.bib

\* all.filter(f => { if (seen.has(key)) return false; seen.add(key); return true; })
\* keeps the rows whose key no earlier row has, in their order
Dedup(all) ==
    LET n == Len(all)
        key == SubSeq([k \in 1..n |-> DedupKey(all[k])], 1, n)
        kept == SelectSeq([k \in 1..n |-> k],
                          LAMBDA k : \A j \in 1..(k - 1) : key[j] # key[k])
    IN  [m \in 1..Len(kept) |-> all[kept[m]]]

\* (a.chipTime || 99999)
SortKey(f) ==
    IF f.chipTime = 0 THEN 99999 ELSE f.chipTime

\* finishers.sort((a, b) => (a.chipTime || 99999) - (b.chipTime || 99999)):
\* Array.prototype.sort is stable, so a row comes after the rows with a smaller
\* key and after the earlier rows with the same key
SortByChipTime(fs) ==
    LET n == Len(fs)
        key == SubSeq([i \in 1..n |-> SortKey(fs[i])], 1, n)
        pos == SubSeq([i \in 1..n |->
                         1 + Cardinality({j \in 1..n :
                                 key[j] < key[i] \/ (key[j] = key[i] /\ j < i)})], 1, n)
    IN  [m \in 1..n |-> fs[CHOOSE i \in 1..n : pos[i] = m]]

\* finishers.sort(...); finishers.forEach((f, i) => { if (!f.rank) f.rank = i + 1; })
BackfillRanks(fs) ==
    LET sorted == SortByChipTime(fs)
    IN  [i \in 1..Len(sorted) |->
            IF sorted[i].rank = 0 THEN [sorted[i] EXCEPT !.rank = i] ELSE sorted[i]]

\* importRaceResult: `contests` describes the contests of the list the import
\* ends up reading, `lists` names the lists that hold data (a candidate by its
\* position in `candidates`, the caller's own list name by 0), `listname` is
\* the caller's list name, "" when none is given
importRaceResult(p, eid, replace, contests, lists, listname) ==
    /\ Begin(p, [NoArgs EXCEPT !.kind = "raceresult", !.entry = "importRaceResult",
                                !.eventId = eid, !.raceId = "rr", !.replace = replace,
                                !.source = contests, !.lists = lists,
                                !.listname = listname])
    /\ loc' = [loc EXCEPT ![p] = NoLoc]
    /\ Enter(p, "check")

\* Mutant: the candidates are probed whether or not a list name is given
UsesDiscoveryAlways(a) ==
    TRUE

\* if (manualListname) { probe it } else { discovery = await discoverEvent(eventId) }
UsesDiscovery(a) ==
    a.listname = ""

\* The contests of the list the crawl reads: those of the groupFilters the
\* probe returned, one unnamed contest without rows when the list holds no data
ListedContests(a) ==
    IF UsesDiscovery(a) \/ 0 \in a.lists THEN a.source
    ELSE <<Contest("", 0, {}, FALSE, <<>>, <<>>)>>

\* What fetchPage(eventId, listname, {}, 5, 1) returns for list c (a candidate
\* by its position, the caller's list name by 0): data (1 for a list that
\* holds data, 0 for `data` missing or empty), DataFields (every list has its
\* own field layout, named by c here) and groupFilters (the contests)
ProbeAnswer(a, c) ==
    [data |-> IF c \in a.lists THEN 1 ELSE 0,
     DataFields |-> c,
     groupFilters |-> IF c \in a.lists THEN a.source ELSE <<>>]

\* A probe as the upstream sees it, with what it answered
Probe(l, c, answer, status) ==
    [op |-> "probe", arg |-> c, len |-> answer.data, rows |-> <<>>, status |-> status,
     waited |-> l.slept, DataFields |-> answer.DataFields,
     groupFilters |-> answer.groupFilters]

\* Mutant: any answer is taken for data
NonEmptyAlways(answer) ==
    TRUE

\* if (data.data && Object.keys(data.data).length > 0)
NonEmpty(answer) ==
    answer.data > 0

\* const contests = contestFilter ? contestFilter.Values.filter(Boolean) : ['']
ContestsOf(groupFilters) ==
    IF groupFilters = <<>> THEN <<Contest("", 0, {}, FALSE, <<>>, <<>>)>> ELSE groupFilters

\* const probe = await fetchPage(eventId, manualListname, {}, 5, 1)
ManualProbe(p) ==
    /\ pc[p] = "discover"
    /\ ~UsesDiscovery(args[p])
    /\ LET l == loc[p]
           answer == ProbeAnswer(args[p], 0)
       IN  /\ reqLog' = [reqLog EXCEPT ![p] = Append(@, Probe(l, 0, answer, 200))]
           /\ loc' = [loc EXCEPT ![p] = [l EXCEPT !.listname = args[p].listname,
                                                    !.dataFields = answer.DataFields,
                                                    !.groupFilters = answer.groupFilters,
                                                    !.slept = FALSE]]
           /\ Continue(p, "rr_fetch")
    /\ UNCHANGED <<race_events, race_finishers, race_events_id_seq, clock, athletes, activities, gear, streams, strava, args, snap>>

\* ... the probe throws, and so does importRaceResult
ManualProbeFails(p) ==
    /\ pc[p] = "discover"
    /\ ~UsesDiscovery(args[p])
    /\ reqLog' = [reqLog EXCEPT ![p] = Append(@, Request(loc[p], "probe", 0, 0 - 1, <<>>, 500))]
    /\ Throw(p, "upstream")
    /\ UNCHANGED <<race_events, race_finishers, race_events_id_seq, clock, athletes, activities, gear, streams, strava, args, loc, snap>>

\* One turn of the for loop of discoverEvent: the probe is answered
DiscoverProbe(p) ==
    /\ pc[p] = "discover"
    /\ UsesDiscovery(args[p])
    /\ LET l == loc[p]
           answer == ProbeAnswer(args[p], l.cand)
           found == NonEmpty(answer)
       IN  /\ reqLog' = [reqLog EXCEPT ![p] = Append(@, Probe(l, l.cand, answer, 200))]
           /\ IF found
              THEN /\ loc' = [loc EXCEPT ![p] = [l EXCEPT !.listname = candidates[l.cand],
                                                            !.dataFields = answer.DataFields,
                                                            !.groupFilters = answer.groupFilters,
                                                            !.slept = FALSE]]
                   /\ Continue(p, "rr_fetch")
              ELSE IF l.cand < Len(candidates)
              THEN /\ loc' = [loc EXCEPT ![p] = [l EXCEPT !.cand = @ + 1, !.slept = TRUE]]
                   /\ UNCHANGED <<pc, result>>
              ELSE /\ UNCHANGED loc
                   /\ Throw(p, "discovery")
    /\ UNCHANGED <<race_events, race_finishers, race_events_id_seq, clock, athletes, activities, gear, streams, strava, args, snap>>

\* ... the probe throws: catch(e) { /* try next */ }
DiscoverProbeFails(p) ==
    /\ pc[p] = "discover"
    /\ UsesDiscovery(args[p])
    /\ LET l == loc[p]
       IN  /\ reqLog' = [reqLog EXCEPT ![p] =
                            Append(@, Request(l, "probe", l.cand, 0 - 1, <<>>, 500))]
           /\ IF l.cand < Len(candidates)
              THEN /\ loc' = [loc EXCEPT ![p] = [l EXCEPT !.cand = @ + 1, !.slept = TRUE]]
                   /\ UNCHANGED <<pc, result>>
              ELSE /\ UNCHANGED loc
                   /\ Throw(p, "discovery")
    /\ UNCHANGED <<race_events, race_finishers, race_events_id_seq, clock, athletes, activities, gear, streams, strava, args, snap>>

\* if (!batch.length) break; ...
\* if (batch.length < PAGE_SIZE || (page * PAGE_SIZE) >= totalInPage) break;
ContestStops(n, page, totalInPage) ==
    n = 0 \/ n < RR_PAGE_SIZE \/ page * RR_PAGE_SIZE >= totalInPage

\* One turn of the while loop of fetchAllFinishers (raceresult.js), 2xx answer
FetchContestPage(p) ==
    /\ pc[p] = "rr_fetch"
    /\ LET a == args[p]
           l == loc[p]
           pg == l.page + 1
           contests == ContestsOf(l.groupFilters)
           d == contests[l.contest]
           raw == ContestRows(d, pg)
           batch == extractFinishers(raw)
           all == Push(l.finishers, batch)
       IN  /\ reqLog' = [reqLog EXCEPT ![p] =
                            Append(@, Request(l, "list", pg, Len(batch), raw, 200))]
           /\ IF ~ContestStops(Len(batch), pg, TotalInPage(d))
              THEN /\ loc' = [loc EXCEPT ![p] = [l EXCEPT !.finishers = all, !.page = pg,
                                                            !.slept = TRUE]]
                   /\ UNCHANGED <<pc, result>>
              ELSE IF l.contest < Len(contests)
              THEN /\ loc' = [loc EXCEPT ![p] =
                                [l EXCEPT !.finishers = all, !.page = 0, !.contest = @ + 1,
                                          !.slept = FALSE]]
                   /\ UNCHANGED <<pc, result>>
              ELSE AfterCrawl(p, [l EXCEPT !.finishers = Dedup(all), !.crawled = TRUE,
                                           !.slept = FALSE])
    /\ UNCHANGED <<race_events, race_finishers, race_events_id_seq, clock, athletes, activities, gear, streams, strava, args, snap>>

\* ... non-2xx answer or timeout: fetchPage throws
FetchContestPageFails(p) ==
    /\ pc[p] = "rr_fetch"
    /\ \E status \in {404, 500} :
          reqLog' = [reqLog EXCEPT ![p] =
                        Append(@, Request(loc[p], "list", loc[p].page + 1, 0 - 1, <<>>, status))]
    /\ Throw(p, "upstream")
    /\ UNCHANGED <<race_events, race_finishers, race_events_id_seq, clock, athletes, activities, gear, streams, strava, args, loc, snap>>

---------------------------------------------------------------------------
(* PDF text parser *)

\* null where a number is expected, and a part of a time that is no number
Null == 0 - 1
NaN == 0 - 2

\* A line of the extracted text after trim(). A line that is no data row is
\* its text; a data row "rank. bib name [age group] time [time ...]" is what
\* ROW_RE, AG_INLINE_RE and TIME_TOKEN take from it: rank (rowM[1]), bib
\* (rowM[2]), name (rowM[3] without the inline age group), inline (the inline
\* age group, "" when there is none) and times (the time tokens of rowM[4],
\* each the sequence of its ':'-separated parts)
Line(text) ==
    [text |-> text, row |-> FALSE, rank |-> 0, bib |-> "", name |-> "",
     inline |-> "", times |-> <<>>]

DataRow(rank, bib, name, inline, times) ==
    [text |-> "", row |-> TRUE, rank |-> rank, bib |-> bib, name |-> name,
     inline |-> inline, times |-> times]

\* The largest number a part of a time is written with
MaxPart == 99

\* String(n).padStart(2, '0')
pad2(n) == IF n < 10 THEN "0" \o ToString(n) ELSE ToString(n)

\* The decimal spellings of the numbers up to MaxPart, with their values
Numerals ==
    {<<ToString(n), n>> : n \in 0..MaxPart} \cup {<<"0" \o ToString(n), n>> : n \in 0..9}

\* Number(part): the value of a decimal spelling, 0 for the empty string, NaN
\* for any other text
Number(part) ==
    IF part = "" THEN 0
    ELSE IF \E d \in Numerals : d[1] = part
         THEN (CHOOSE d \in Numerals : d[1] = part)[2]
    ELSE NaN

\* parseTime on a token: val is clean.split(':'), the ':'-separated parts of
\* the token with centiseconds and outer blanks stripped; <<>> stands for a
\* missing token and <<"">> is the empty string, both falsy
parseTime(val) ==
    LET parts == [i \in 1..Len(val) |-> Number(val[i])]
    IN  IF val = <<>> \/ val = <<"">> THEN Null
        ELSE IF (\E i \in 1..Len(parts) : parts[i] = NaN) \/ Len(parts) < 2 THEN Null
        ELSE IF Len(parts) = 3 THEN parts[1] * 3600 + parts[2] * 60 + parts[3]
        ELSE IF Len(parts) = 2 THEN parts[1] * 60 + parts[2]
        ELSE Null

\* parseTimeToSeconds of the RaceResult adapter, on the same tokens (each of
\* them a string)
parseTimeToSeconds(val) ==
    LET parts == [i \in 1..Len(val) |-> Number(val[i])]
    IN  IF val = <<>> \/ val = <<"">> THEN Null
        ELSE IF (\E i \in 1..Len(parts) : parts[i] = NaN) \/ Len(parts) < 2 THEN Null
        ELSE IF Len(parts) = 3 THEN parts[1] * 3600 + parts[2] * 60 + parts[3]
        ELSE IF Len(parts) = 2 THEN parts[1] * 60 + parts[2]
        ELSE Null

Genders == {"Female", "Male"}
AgeRanges == {"30-34", "70+"}

SKIP_RE(line) == line.text \in {"CSILO Run 2025", "Results", "Pl. Bib Name"}

\* Mutant: the pattern without the wheelchair race
RACE_RE_TwoRaces(line) ==
    line.text \in {"Half Marathon", "5K"}

\* /^(Half Marathon|5K|Silla de ruedas)$/
RACE_RE(line) ==
    line.text \in {"Half Marathon", "5K", "Silla de ruedas"}

GENDER_RE(line) == line.text \in Genders
AG_STD_RE(line) == line.text \in {g \o " " \o r : g \in Genders, r \in AgeRanges}
AG_OPEN_RE(line) == line.text \in {"Open F", "Open M", "open f", "open m"}

\* Mutant: the pattern without its i flag, tried on the capitalised spelling
OVERALL_RE_Capitalised(line) ==
    line.text \in {"Overall"}

\* /^overall$/i
OVERALL_RE(line) ==
    line.text \in {"overall", "Overall", "OVERALL"}

ROW_RE(line) == line.row

\* agM[1] of a line that AG_STD_RE matches
AgStdGender(line) ==
    CHOOSE g \in Genders : \E r \in AgeRanges : line.text = g \o " " \o r

\* openM[1].toUpperCase() of a line that AG_OPEN_RE matches
OpenLetter(line) == IF line.text \in {"Open F", "open f"} THEN "F" ELSE "M"

\* currentRace = (raceM[1] === '5K') ? '5k' : 'hm'
RaceKeyOf(label) == IF label = "5K" THEN "5k" ELSE "hm"

\* A Map: its entries in insertion order
MapHas(m, k) == \E i \in 1..Len(m) : m[i].key = k

MapGet(m, k) == m[CHOOSE i \in 1..Len(m) : m[i].key = k].value

\* The parser's variables before the first line; "" stands for null
ParserInit ==
    [currentRace |-> "", sectionType |-> "", gender |-> Null, ageGroup |-> ""]

\* The header part of the loop body of parsePDF: what a line that is no data
\* row does to the parser's variables
parseHeader(st, line) ==
    IF (~line.row /\ line.text = "") \/ SKIP_RE(line) THEN st
    ELSE IF RACE_RE(line)
    THEN [st EXCEPT !.currentRace = RaceKeyOf(line.text), !.sectionType = "overall",
                    !.gender = Null, !.ageGroup = ""]
    ELSE IF OVERALL_RE(line)
    THEN [st EXCEPT !.sectionType = "agegroup", !.gender = Null, !.ageGroup = "Overall"]
    ELSE IF GENDER_RE(line)
    THEN [st EXCEPT !.gender = IF line.text = "Female" THEN 2 ELSE 1,
                    !.ageGroup = "", !.sectionType = "gender"]
    ELSE IF AG_STD_RE(line)
    THEN [st EXCEPT !.gender = IF AgStdGender(line) = "Female" THEN 2 ELSE 1,
                    !.ageGroup = line.text, !.sectionType = "agegroup"]
    ELSE IF AG_OPEN_RE(line)
    THEN [st EXCEPT !.gender = IF OpenLetter(line) = "F" THEN 2 ELSE 1,
                    !.ageGroup = "Open " \o OpenLetter(line),
                    !.sectionType = "agegroup"]
    ELSE st

\* A race header sets all four variables and every other header sets the
\* three section variables, so the variables a line is read with are those
\* the last race header and the last header before it leave behind
IsRaceHeader(line) == ~SKIP_RE(line) /\ RACE_RE(line)

IsHeader(line) ==
    /\ ~SKIP_RE(line)
    /\ RACE_RE(line) \/ OVERALL_RE(line) \/ GENDER_RE(line) \/ AG_STD_RE(line)
          \/ AG_OPEN_RE(line)

\* The last of the lines before line i that are in `which`, 0 when none is
LastBefore(which, i) ==
    LET S == {j \in which : j < i}
    IN  IF S = {} THEN 0 ELSE CHOOSE j \in S : \A k \in S : k <= j

VarsBefore(text, raceHeaders, headers, i) ==
    LET r == LastBefore(raceHeaders, i)
        h == LastBefore(headers, i)
        inRace == IF r = 0 THEN ParserInit ELSE parseHeader(ParserInit, text[r])
    IN  IF h = 0 THEN ParserInit ELSE parseHeader(inRace, text[h])

\* The data-row part of the loop body: does the line reach the section maps
ReadsRow(st, line) ==
    /\ ~((~line.row /\ line.text = "") \/ SKIP_RE(line))
    /\ ~IsHeader(line)
    /\ st.currentRace # ""
    /\ ROW_RE(line)
    /\ line.times # <<>>

\* The record an age-group row is stored as
parseRow(st, line) ==
    LET chipTimeS == parseTime(line.times[Len(line.times)])
        resolvedAG == IF line.inline # "" THEN line.inline ELSE st.ageGroup
        name == IF line.name = line.bib THEN NoName ELSE line.name
    IN  [bib |-> line.bib, name |-> name, gender |-> st.gender,
         ageGroup |-> resolvedAG, ageGroupRank |-> line.rank,
         chipTimeS |-> chipTimeS]

\* Mutant: the age-group record is set without the has(bib) test, so the
\* record of the last row of the bib stays
SectionMapLastWins(text, before, key, sectionType) ==
    LET n == Len(text)
        hit == {i \in 1..n : /\ ReadsRow(before[i], text[i])
                             /\ before[i].currentRace = key
                             /\ before[i].sectionType = sectionType}
        first == {i \in hit : \A j \in hit : text[j].bib = text[i].bib => i <= j}
        last(i) == CHOOSE j \in hit :
                      /\ text[j].bib = text[i].bib
                      /\ \A k \in hit : text[k].bib = text[i].bib => k <= j
        rows == SelectSeq(SubSeq([i \in 1..n |-> i], 1, n), LAMBDA i : i \in first)
    IN  SubSeq([m \in 1..Len(rows) |->
                  [key |-> text[rows[m]].bib,
                   value |-> IF sectionType = "agegroup"
                             THEN parseRow(before[last(rows[m])], text[last(rows[m])])
                             ELSE text[last(rows[m])].rank]], 1, Len(rows))

\* One section map of one race after the whole text: an entry per bib in the
\* order of the bibs' first rows; raceData.overall.set and raceData.gender.set
\* overwrite, so the value is the rank of the bib's last row, while an
\* age-group record is set only if (!raceData.agegroup.has(bib)), so it is the
\* record of the bib's first row
SectionMap(text, before, key, sectionType) ==
    LET n == Len(text)
        hit == {i \in 1..n : /\ ReadsRow(before[i], text[i])
                             /\ before[i].currentRace = key
                             /\ before[i].sectionType = sectionType}
        first == {i \in hit : \A j \in hit : text[j].bib = text[i].bib => i <= j}
        last(i) == CHOOSE j \in hit :
                      /\ text[j].bib = text[i].bib
                      /\ \A k \in hit : text[k].bib = text[i].bib => k <= j
        rows == SelectSeq(SubSeq([i \in 1..n |-> i], 1, n), LAMBDA i : i \in first)
    IN  SubSeq([m \in 1..Len(rows) |->
                  [key |-> text[rows[m]].bib,
                   value |-> IF sectionType = "agegroup"
                             THEN parseRow(before[rows[m]], text[rows[m]])
                             ELSE text[last(rows[m])].rank]], 1, Len(rows))

\* parsePDF(text): the races, in the order of their keys
parsePDF(text) ==
    LET n == Len(text)
        raceHeaders == {j \in 1..n : IsRaceHeader(text[j])}
        headers == {j \in 1..n : IsHeader(text[j])}
        before == SubSeq([i \in 1..n |-> VarsBefore(text, raceHeaders, headers, i)], 1, n)
    IN  [r \in 1..Len(RaceKeys) |->
            [overall |-> SectionMap(text, before, RaceKeys[r], "overall"),
             gender |-> SectionMap(text, before, RaceKeys[r], "gender"),
             agegroup |-> SectionMap(text, before, RaceKeys[r], "agegroup")]]

\* raceData.overall.get(f.bib) || null
GetOrNull(m, k) ==
    IF MapHas(m, k) /\ MapGet(m, k) # 0 THEN MapGet(m, k) ELSE Null

\* Mutant: the overall rank is looked up in the gender map
buildFinishersFromGender(raceData) ==
    [k \in 1..Len(raceData.agegroup) |->
        LET f == raceData.agegroup[k].value
        IN  [bib |-> f.bib, name |-> f.name, gender |-> f.gender,
             ageGroup |-> f.ageGroup, ageGroupRank |-> f.ageGroupRank,
             chipTimeS |-> f.chipTimeS,
             overallRank |-> GetOrNull(raceData.gender, f.bib),
             genderRank |-> GetOrNull(raceData.gender, f.bib)]]

\* buildFinishers(raceData): the age-group records in insertion order, each
\* with the ranks its bib has in the two side maps
buildFinishers(raceData) ==
    [k \in 1..Len(raceData.agegroup) |->
        LET f == raceData.agegroup[k].value
        IN  [bib |-> f.bib, name |-> f.name, gender |-> f.gender,
             ageGroup |-> f.ageGroup, ageGroupRank |-> f.ageGroupRank,
             chipTimeS |-> f.chipTimeS,
             overallRank |-> GetOrNull(raceData.overall, f.bib),
             genderRank |-> GetOrNull(raceData.gender, f.bib)]]

---------------------------------------------------------------------------
(* PDF batch import *)

\* Mutant: a race without finishers is imported like any other
NextPdfRaceAll(parsed, from) ==
    IF from <= Len(parsed) THEN from ELSE 0

\* for (const [raceKey, raceData] of Object.entries(races)): the next race
\* key at or after `from` that has finishers, 0 when there is none
NextPdfRace(parsed, from) ==
    LET S == {k \in from..Len(parsed) : Len(buildFinishers(parsed[k])) > 0}
    IN  IF S = {} THEN 0 ELSE CHOOSE k \in S : \A j \in S : k <= j

PdfLoop(p, parsed, l, from) ==
    LET idx == NextPdfRace(parsed, from)
    IN  IF idx = 0
        THEN /\ loc' = [loc EXCEPT ![p] = l]
             /\ Return(p, [NoResult EXCEPT !.ok = TRUE])
        ELSE /\ loc' = [loc EXCEPT ![p] =
                          [NoLoc EXCEPT !.raceIdx = idx,
                                        !.finishers = buildFinishers(parsed[idx])]]
             /\ pc' = [pc EXCEPT ![p] = "check"]
             /\ result' = [result EXCEPT ![p] = NoResult]

\* main() of import-csilo-2025.js on the text `parsed.text`, which parsePDF
\* turns into `parsed.races`
main(p, parsed) ==
    /\ Begin(p, [NoArgs EXCEPT !.kind = "pdf", !.entry = "main", !.eventId = EVENT_ID,
                                !.replace = TRUE, !.source = parsed.races,
                                !.text = parsed.text])
    /\ PdfLoop(p, parsed.races, NoLoc, 1)

---------------------------------------------------------------------------
(* Persistence: the delete of a prior import, the event row, the batches *)

\* Mutant: the delete matches on the source event id, not on the row id
DeleteFinishersOfEvent(p) ==
    /\ pc[p] = "delete_finishers"
    /\ race_finishers' =
          {f \in race_finishers :
              \A e \in race_events :
                  e.sporthive_event_id = args[p].eventId => f.race_event_id # e.id}
    /\ Continue(p, "delete_event")
    /\ UNCHANGED <<race_events, race_events_id_seq, clock, athletes, activities, gear, streams, strava, args, loc, reqLog, snap>>

\* DELETE FROM race_finishers WHERE race_event_id = existing.id
DeleteFinishers(p) ==
    /\ pc[p] = "delete_finishers"
    /\ race_finishers' = {f \in race_finishers : f.race_event_id # loc[p].existing.id}
    /\ Continue(p, "delete_event")
    /\ UNCHANGED <<race_events, race_events_id_seq, clock, athletes, activities, gear, streams, strava, args, loc, reqLog, snap>>

\* DELETE FROM race_events WHERE id = existing.id
DeleteEvent(p) ==
    /\ pc[p] = "delete_event"
    /\ race_events' = {e \in race_events : e.id # loc[p].existing.id}
    /\ race_finishers' = CascadeDelete(race_finishers, loc[p].existing.id)
    /\ Continue(p, "insert_event")
    /\ UNCHANGED <<race_events_id_seq, clock, athletes, activities, gear, streams, strava, args, loc, reqLog, snap>>

\* INSERT INTO race_events (...) VALUES (...) RETURNING id
InsertEvent(p) ==
    /\ pc[p] = "insert_event"
    /\ race_events_id_seq' = race_events_id_seq + 1
    /\ IF UniqueViolation(race_events, args[p].eventId, CurRaceId(p))
       THEN /\ Throw(p, "insert_event")
            /\ UNCHANGED <<race_events, loc>>
       ELSE /\ race_events' = race_events \cup
                    {[id |-> race_events_id_seq + 1,
                      sporthive_event_id |-> args[p].eventId,
                      sporthive_race_id |-> CurRaceId(p),
                      total_finishers |-> Len(loc[p].finishers),
                      imported_at |-> args[p].inv]}
            /\ loc' = [loc EXCEPT ![p].raceEventId = race_events_id_seq + 1,
                                  ![p].i = 0, ![p].inserted = 0,
                                  ![p].finishers = IF args[p].kind = "raceresult"
                                                   THEN BackfillRanks(@) ELSE @]
            /\ Continue(p, "insert_batch")
    /\ UNCHANGED <<race_finishers, clock, athletes, activities, gear, streams, strava, args, reqLog, snap>>

\* Mutant: the slice ends one element early
BatchOfShort(finishers, i) ==
    slice(finishers, i, i + BATCH - 1)

\* Mutant: the slice ends at BATCH instead of i + BATCH
BatchOfFirstOnly(finishers, i) ==
    slice(finishers, i, BATCH)

\* finishers.slice(i, i + BATCH)
BatchOf(finishers, i) ==
    slice(finishers, i, i + BATCH)

\* What follows the last batch, up to the next await
\* fmtTime(s): null (<<>> here) for a missing or zero duration (!s), else the
\* ':'-separated parts of "H:MM:SS", or of "M:SS" when the hours are zero
fmtTime(s) ==
    IF s \in {0, Null, NaN} THEN <<>>
    ELSE IF s \div 3600 > 0
         THEN <<ToString(s \div 3600), pad2((s % 3600) \div 60), pad2(s % 60)>>
    ELSE <<ToString((s % 3600) \div 60), pad2(s % 60)>>

\* The key a finisher is counted under: the Sporthive importer counts
\* if (f.category), the RaceResult importer counts f.ageGroup || 'Unknown'
BreakdownKey(kind, f) ==
    IF kind = "raceresult" /\ f.category = NoCategory THEN "Unknown" ELSE f.category

\* const ageCounts = finishers.reduce(...)
ageCounts(kind, finishers) ==
    LET keys == {BreakdownKey(kind, f) : f \in Range(finishers)} \ {NoCategory}
    IN  [c \in keys |->
            Cardinality({k \in 1..Len(finishers) :
                            BreakdownKey(kind, finishers[k]) = c})]

\* sample: finishers.slice(0, 3).map(...)
SampleOf(finishers) ==
    [k \in 1..Min(3, Len(finishers)) |->
        [rank |-> finishers[k].rank, bib |-> finishers[k].bib,
         name |-> finishers[k].name, category |-> finishers[k].category,
         time |-> fmtTime(finishers[k].chipTime)]]

AfterInsert(p, l) ==
    IF args[p].kind = "pdf"
    THEN PdfLoop(p, args[p].source, l, l.raceIdx + 1)
    ELSE /\ loc' = [loc EXCEPT ![p] = l]
         /\ Return(p, [NoResult EXCEPT
                !.ok = TRUE,
                !.race_event_id = l.raceEventId,
                !.total_finishers = IF args[p].kind = "raceresult"
                                    THEN Len(l.finishers) ELSE l.inserted,
                !.age_group_breakdown = ageCounts(args[p].kind, l.finishers),
                !.sample = SampleOf(l.finishers)])

\* Mutant: the insert links the row to the athlete of the session
FinisherRowLinked(raceEventId, f, inv) ==
    [race_event_id |-> raceEventId, src |-> f, by |-> inv, athlete_id |-> ATHLETE]

\* A row of race_finishers as the importers insert it: athlete_id is not
\* among the columns of the INSERT, so it is NULL (0 here)
FinisherRow(raceEventId, f, inv) ==
    [race_event_id |-> raceEventId, src |-> f, by |-> inv, athlete_id |-> 0]

\* One turn of the batch loop: INSERT INTO race_finishers (...) VALUES ...
InsertBatch(p) ==
    /\ pc[p] = "insert_batch"
    /\ LET l == loc[p]
           batch == BatchOf(l.finishers, l.i)
           next == [l EXCEPT !.i = @ + BATCH, !.inserted = @ + Len(batch)]
       IN  IF ForeignKeyViolation(race_events, l.raceEventId)
           THEN /\ Throw(p, "insert_batch")
                /\ UNCHANGED <<race_finishers, loc>>
           ELSE /\ race_finishers' = race_finishers \cup
                        {FinisherRow(l.raceEventId, batch[k], args[p].inv) :
                            k \in 1..Len(batch)}
                /\ IF next.i < Len(l.finishers)
                   THEN /\ loc' = [loc EXCEPT ![p] = next]
                        /\ UNCHANGED <<pc, result>>
                   ELSE AfterInsert(p, next)
    /\ UNCHANGED <<race_events, race_events_id_seq, clock, athletes, activities, gear, streams, strava, args, reqLog, snap>>

DbPcs == {"check", "delete_finishers", "delete_event", "insert_event", "insert_batch"}

\* query() rejects: no connection within connectionTimeoutMillis, or the
\* server reports an error for the statement
QueryThrows(p) ==
    /\ pc[p] \in DbPcs
    /\ Throw(p, pc[p])
    /\ UNCHANGED <<race_events, race_finishers, race_events_id_seq, clock, athletes, activities, gear, streams, strava, args, loc,
                   reqLog, snap>>

---------------------------------------------------------------------------
(* Inputs *)

SporthiveKinds == {"sporthive", "sporthive_offset"}
EventIds == {"1"}
RaceIds == {"1", "2"}
Totals == {0, 37, 100}
Contests == {<<Plain(1, 0)>>, <<Plain(1, 37)>>, <<Plain(1, 37), Plain(2, 20)>>}
Lists == {{}, {2}, {2, 4}}
\* The text of a results document with n rows in the one age group of a race
ResultsBlock(label, n) ==
    <<Line(label)>>
        \o [k \in 1..n |-> DataRow(k, ToString(k), ToString(k), "", <<<<ToString(1 + k \div 60), pad2(k % 60), "00">>>>)]
        \o (IF n = 0 THEN <<>> ELSE <<Line("Female 30-34")>>)
        \o [k \in 1..n |-> DataRow(k, ToString(k), "Runner", "", <<<<ToString(1 + k \div 60), pad2(k % 60), "00">>>>)]

ResultsText(hm, fivek) ==
    <<Line("CSILO Run 2025")>> \o ResultsBlock("Half Marathon", hm)
        \o ResultsBlock("5K", fivek)

ParsedOf(hm, fivek) ==
    [text |-> ResultsText(hm, fivek), races |-> parsePDF(ResultsText(hm, fivek))]

Parsed == {ParsedOf(0, 0), ParsedOf(60, 0), ParsedOf(0, 60), ParsedOf(60, 60)}
CrawlTotals == {0, 37, 50, 100, 137, 200, 237, Endless}

---------------------------------------------------------------------------
(* Specifications *)

Init ==
    /\ race_events = {}
    /\ race_finishers = {}
    /\ race_events_id_seq = 0
    /\ clock = 0
    /\ pc = [p \in Procs |-> "idle"]
    /\ args = [p \in Procs |-> NoArgs]
    /\ loc = [p \in Procs |-> NoLoc]
    /\ reqLog = [p \in Procs |-> <<>>]
    /\ result = [p \in Procs |-> NoResult]
    /\ snap = [p \in Procs |-> [events |-> {}, finishers |-> {}, streams |-> {}]]
    /\ athletes = [a \in {ATHLETE} |-> NoSync]
    /\ activities = {}
    /\ gear = {}
    /\ streams = {}
    /\ strava = <<>>

Call(p) ==
    /\ clock < MaxInvocations
    /\ \/ \E kind \in SporthiveKinds, eid \in EventIds, rid \in RaceIds \cup {NoRace},
          replace \in BOOLEAN, total \in Totals :
            importRace(p, kind, eid, rid, NoRace, replace, total, 0)
       \/ \E kind \in SporthiveKinds :
            importRace(p, kind, "1", "1", NoRace, FALSE, 37, 1)
       \/ \E kind \in SporthiveKinds, rid \in {NoRace, "1"} :
            importRace(p, kind, "1", rid, "2", FALSE, 37, 0)
       \/ \E eid \in EventIds, replace \in BOOLEAN, contests \in Contests, lists \in Lists :
            importRaceResult(p, eid, replace, contests, lists, "")
       \/ \E replace \in BOOLEAN, lists \in {{}, {0}} :
            importRaceResult(p, "1", replace, <<Plain(1, 37)>>, lists, "Custom|List")
       \/ \E parsed \in Parsed : main(p, parsed)

Step(p) ==
    \/ FetchEventRaces(p)
    \/ FetchEventRacesFails(p)
    \/ CheckExisting(p)
    \/ FetchPage(p)
    \/ FetchPageFails(p)
    \/ FetchPageNotFound(p)
    \/ ManualProbe(p)
    \/ ManualProbeFails(p)
    \/ DiscoverProbe(p)
    \/ DiscoverProbeFails(p)
    \/ FetchContestPage(p)
    \/ FetchContestPageFails(p)
    \/ DeleteFinishers(p)
    \/ DeleteEvent(p)
    \/ InsertEvent(p)
    \/ InsertBatch(p)
    \/ QueryThrows(p)

\* One import at a time
Next == \E p \in {1} : Call(p) \/ Step(p)

Spec == Init /\ [][Next]_vars

\* Overlapping imports: every await of one may interleave with the other's;
\* the upstream answers every request
CallConc(p) ==
    /\ clock < MaxInvocations
    /\ \/ \E replace \in BOOLEAN : importRace(p, "sporthive", "1", "1", NoRace, replace, 60, 0)
       \/ \E replace \in BOOLEAN : importRaceResult(p, "1", replace, <<Plain(1, 37)>>, {1}, "")
       \/ main(p, ParsedOf(60, 0))

StepConc(p) ==
    \/ CheckExisting(p)
    \/ FetchPage(p)
    \/ DiscoverProbe(p)
    \/ FetchContestPage(p)
    \/ DeleteFinishers(p)
    \/ DeleteEvent(p)
    \/ InsertEvent(p)
    \/ InsertBatch(p)
    \/ QueryThrows(p)

NextConc == \E p \in Procs : CallConc(p) \/ StepConc(p)

SpecConc == Init /\ [][NextConc]_vars

\* Two imports of different pairs that overlap: process 1 imports Sporthive
\* race ("1", "1"), process 2 the RaceResult event ("1", "rr")
CallDisjoint(p) ==
    /\ clock < MaxOverlapping
    /\ \/ /\ p = 1
          /\ \E replace \in BOOLEAN : importRace(p, "sporthive", "1", "1", NoRace, replace, 60, 0)
       \/ /\ p = 2
          /\ \E replace \in BOOLEAN : importRaceResult(p, "1", replace, <<Plain(1, 37)>>, {1}, "")

StepDisjoint(p) ==
    \/ CheckExisting(p)
    \/ FetchPage(p)
    \/ FetchPageFails(p)
    \/ DiscoverProbe(p)
    \/ FetchContestPage(p)
    \/ FetchContestPageFails(p)
    \/ DeleteFinishers(p)
    \/ DeleteEvent(p)
    \/ InsertEvent(p)
    \/ InsertBatch(p)
    \/ QueryThrows(p)

NextDisjoint == \E p \in Procs : CallDisjoint(p) \/ StepDisjoint(p)

SpecDisjoint == Init /\ [][NextDisjoint]_vars

\* fetchAllFinishers alone against a source; every request is answered or
\* times out, so a pending turn of the loop is eventually taken
CallCrawl(p) ==
    /\ clock < MaxCrawls
    /\ \E kind \in SporthiveKinds, total \in CrawlTotals : fetchAllFinishers(p, kind, total)

NextCrawl == \E p \in {1} : CallCrawl(p) \/ FetchPage(p) \/ FetchPageFails(p)

SpecCrawl == Init /\ [][NextCrawl]_vars /\ WF_vars(FetchPage(1) \/ FetchPageFails(1))

\* One RaceResult import into empty tables, the upstream answering every
\* request, against events whose lists have pages without a total count,
\* rows without a name, repeated bibs, and chip times that are missing or long
RRSources ==
    {<<Plain(1, 3)>>,
     <<Plain(1, RR_PAGE_SIZE + 1)>>,
     <<Contest("Run", RR_PAGE_SIZE + 1, {}, FALSE, <<>>, <<>>)>>,
     <<Contest("Run", RR_PAGE_SIZE + 1, {7}, TRUE, <<>>, <<>>)>>,
     <<Contest("Run", 3, {2}, TRUE, <<>>, <<>>), Plain(2, 2)>>,
     <<Contest("Run", 2, {}, TRUE, <<"101", "102">>, <<>>),
       Contest("Walk", 2, {}, TRUE, <<"101", "103">>, <<>>)>>,
     <<Contest("Run", 3, {}, TRUE, <<"101", "101", "102">>, <<>>)>>,
     <<Contest("A", 1, {}, TRUE, <<"B:C">>, <<>>),
       Contest("A:B", 1, {}, TRUE, <<"C">>, <<>>)>>,
     <<Contest("Run", 3, {}, TRUE, <<>>, <<7200, 0, 3600>>)>>,
     <<Contest("Run", 3, {}, TRUE, <<>>, <<3600, 3600, 1800>>)>>,
     <<Contest("Ultra", 3, {}, TRUE, <<>>, <<0, 108000, 90000>>)>>}

CallRR(p) ==
    /\ pc[p] = "idle"
    /\ \E contests \in RRSources, lists \in {{1}, {3}} :
          importRaceResult(p, "1", FALSE, contests, lists, "")

StepRR(p) ==
    \/ CheckExisting(p)
    \/ DiscoverProbe(p)
    \/ FetchContestPage(p)
    \/ InsertEvent(p)
    \/ InsertBatch(p)

NextRR == \E p \in {1} : CallRR(p) \/ StepRR(p)

SpecRR == Init /\ [][NextRR]_vars

\* The PDF script run on one results text, and run again on the same text
\* (TXT_FILE is a fixed path), the database answering every statement.
\* The text of a race: its header, the bib-only rows that follow it, a gender
\* section and an age-group section, each of which may be missing
OverallRows(bibs) ==
    [k \in 1..Len(bibs) |-> DataRow(k, bibs[k], bibs[k], "", <<<<"1", pad2(30 + k), "00">>>>)]

OverallVariants == {<<>>, OverallRows(<<"1", "2", "3">>), OverallRows(<<"2", "1">>)}

GenderVariants ==
    {<<>>, <<Line("Female"), DataRow(1, "2", "2", "", <<<<"1", "45", "00">>>>)>>}

AgeGroupVariants ==
    {<<>>,
     <<Line("Female 30-34"), DataRow(1, "2", "Jane Doe", "", <<<<"1", "45", "00">>>>)>>,
     <<Line("Open F"), DataRow(1, "2", "Ana Ruiz", "", <<<<"45", "00">>>>)>>,
     <<Line("overall"),
       DataRow(1, "1", "Eli Te", "Male 30-34", <<<<"1", "10", "02">>, <<"1", "09", "58">>>>)>>,
     <<Line("Female 30-34"), DataRow(1, "1", "1", "", <<<<"1", "40", "00">>>>),
       Line("Open F"), DataRow(1, "1", "Ana Ruiz", "", <<<<"1", "40", "00">>>>)>>,
     <<Line("Male 70+"), Line("Pl. Bib Name"),
       DataRow(1, "3", "", "", <<<<"2", "00", "00">>>>),
       DataRow(2, "2", "Tom Roe", "", <<<<"2", "05", "00">>>>),
       DataRow(3, "2", "Tom Roe", "", <<<<"2", "06", "00">>>>)>>}

RaceLabels == {"Half Marathon", "5K", "Silla de ruedas"}

FirstBlocks ==
    {<<Line(label)>> \o ov \o gd \o ag :
        label \in RaceLabels, ov \in OverallVariants, gd \in GenderVariants,
        ag \in AgeGroupVariants}

SecondBlocks ==
    {<<>>} \cup
    {<<Line(label)>> \o ov \o ag :
        label \in RaceLabels,
        ov \in {<<>>, OverallRows(<<"2", "1">>)},
        ag \in {<<Line("Female 30-34"),
                  DataRow(1, "2", "Jane Doe", "", <<<<"1", "45", "00">>>>)>>,
                <<Line("Open M"), DataRow(1, "2", "Luis Paz", "", <<<<"50", "00">>>>)>>}}

\* Lines that come before the first race header: a section header with rows
Preamble ==
    <<Line("Results"), Line("Female 30-34"),
      DataRow(1, "3", "Eva Sol", "", <<<<"1", "50", "00">>>>),
      DataRow(2, "2", "2", "Open F", <<<<"1", "55", "00">>>>)>>

Texts ==
    {a \o b : a \in FirstBlocks, b \in SecondBlocks}
        \cup {Preamble \o a : a \in FirstBlocks}

Documents == {[text |-> t, races |-> parsePDF(t)] : t \in Texts}

CallPdf(p) ==
    /\ clock < MaxRuns
    /\ \E parsed \in Documents :
          /\ clock = 0 \/ parsed.text = args[p].text
          /\ main(p, parsed)

StepPdf(p) ==
    \/ CheckExisting(p)
    \/ DeleteFinishers(p)
    \/ DeleteEvent(p)
    \/ InsertEvent(p)
    \/ InsertBatch(p)

NextPdf == \E p \in {1} : CallPdf(p) \/ StepPdf(p)

SpecPdf == Init /\ [][NextPdf]_vars

---------------------------------------------------------------------------
(* Strava: activity sync and cached streams (server/strava.js) *)

MaxStravaCalls == 3

PER_PAGE == 50
NoGear == ""

\* An activity as /athlete/activities lists it. Of the `total` activities the
\* athlete has, the first two and the last are runs, and the first names gear
Activity(k, total) ==
    [id |-> k, isRun |-> k \in {1, 2, total}, gear_id |-> IF k = 1 THEN "g1" ELSE NoGear]

\* Page `page` of an upstream that lists `total` activities for the query
ActivitiesPage(total, page) ==
    LET from == (page - 1) * PER_PAGE
        m == Max(0, Min(PER_PAGE, total - from))
    IN  [k \in 1..m |-> Activity(from + k, total)]

\* One request as Strava sees it; after 0 stands for no `after` parameter,
\* and a token request carries the path it is made for
Asked(p, op, arg, page, after, ok) ==
    [op |-> op, arg |-> arg, page |-> page, after |-> after, inv |-> args[p].inv,
     ok |-> ok]

StravaLoc == [path |-> "", page |-> 1, acts |-> <<>>, i |-> 0, totalNew |-> 0]

\* refreshTokenIfNeeded: if (athlete.token_expires_at > now + 60) return
\* athlete.access_token; the athlete object is never updated, so an expired
\* token is refreshed again before every request of the invocation
FetchEntry(athlete) ==
    IF athlete.expired THEN "strava_token" ELSE "strava_fetch"

\* const lastSync = athlete.last_sync_at ? Math.floor(... / 1000) : 0
lastSync(athlete) ==
    athlete.last_sync_at

\* stravaFetch(athlete, path, params) is entered
stravaFetch(p, l, path) ==
    /\ loc' = [loc EXCEPT ![p] = [l EXCEPT !.path = path]]
    /\ Continue(p, FetchEntry(args[p].athlete))

\* POST /api/sync: athlete = await getAthlete(req); syncActivities(athlete)
syncActivities(p, total, expired) ==
    LET athlete == [last_sync_at |-> athletes[ATHLETE].last_sync_at, expired |-> expired]
    IN  /\ Begin(p, [NoArgs EXCEPT !.kind = "strava", !.entry = "syncActivities",
                                    !.athlete = athlete, !.total = total])
        /\ loc' = [loc EXCEPT ![p] = [StravaLoc EXCEPT !.path = "activities"]]
        /\ Enter(p, FetchEntry(athlete))

\* GET /api/streams/:activityId: athlete = await getAthlete(req)
streamsRoute(p, activityId, expired) ==
    LET athlete == [last_sync_at |-> athletes[ATHLETE].last_sync_at, expired |-> expired]
    IN  /\ Begin(p, [NoArgs EXCEPT !.kind = "strava", !.entry = "getStreams",
                                    !.athlete = athlete, !.activityId = activityId])
        /\ loc' = [loc EXCEPT ![p] = StravaLoc]
        /\ Enter(p, "owner")

\* ... Verify this activity belongs to this athlete, then getStreams is called
VerifyOwner(p) ==
    /\ pc[p] = "owner"
    /\ IF \E a \in activities : a.strava_id = args[p].activityId /\ a.athlete_id = ATHLETE
       THEN Continue(p, "cache")
       ELSE Return(p, [NoResult EXCEPT !.returned = TRUE, !.at = "403"])
    /\ UNCHANGED <<race_events, race_finishers, race_events_id_seq, clock, args, loc,
                   reqLog, snap, athletes, activities, gear, streams, strava>>

\* getStreams: Check cache first
getStreams(p) ==
    /\ pc[p] = "cache"
    /\ LET cached == {r \in streams : r.activity_id = args[p].activityId}
       IN  IF cached # {}
           THEN /\ Return(p, [NoResult EXCEPT !.ok = TRUE, !.cached = TRUE,
                                              !.streams = cached])
                /\ UNCHANGED loc
           ELSE stravaFetch(p, loc[p], "streams")
    /\ UNCHANGED <<race_events, race_finishers, race_events_id_seq, clock, args,
                   reqLog, snap, athletes, activities, gear, streams, strava>>

\* catch (e) { console.warn(`Could not fetch gear ...`) } in upsertGear; any
\* other failure of stravaFetch leaves the handler
FetchThrows(p) ==
    IF loc[p].path = "gear"
    THEN Continue(p, "upsert")
    ELSE Throw(p, "strava")

\* refreshTokenIfNeeded: POST /oauth/token answers with a new token
RefreshToken(p) ==
    /\ pc[p] = "strava_token"
    /\ strava' = Append(strava, Asked(p, "token", loc[p].path, 0, 0, TRUE))
    /\ Continue(p, "strava_save_token")
    /\ UNCHANGED <<race_events, race_finishers, race_events_id_seq, clock, args, loc,
                   reqLog, snap, athletes, activities, gear, streams>>

\* ... if (!res.ok) throw new Error(`Token refresh failed`)
RefreshTokenFails(p) ==
    /\ pc[p] = "strava_token"
    /\ strava' = Append(strava, Asked(p, "token", loc[p].path, 0, 0, FALSE))
    /\ FetchThrows(p)
    /\ UNCHANGED <<race_events, race_finishers, race_events_id_seq, clock, args, loc,
                   reqLog, snap, athletes, activities, gear, streams>>

\* ... UPDATE athletes SET access_token=$1, refresh_token=$2, token_expires_at=$3
SaveToken(p) ==
    /\ pc[p] = "strava_save_token"
    /\ athletes' = [athletes EXCEPT ![ATHLETE].access_token = args[p].inv]
    /\ Continue(p, "strava_fetch")
    /\ UNCHANGED <<race_events, race_finishers, race_events_id_seq, clock, args, loc,
                   reqLog, snap, activities, gear, streams, strava>>

\* The first run among acts[from..], 0 when there is none: if (!isRun) continue
NextRun(acts, from) ==
    LET runs == {k \in from..Len(acts) : acts[k].isRun}
    IN  IF runs = {} THEN 0 ELSE CHOOSE k \in runs : \A j \in runs : k <= j

\* The for loop over acts from acts[from], then
\* if (acts.length < 50) break; page++;
NextActivity(p, l, from) ==
    LET nxt == NextRun(l.acts, from)
    IN  IF nxt # 0
        THEN /\ loc' = [loc EXCEPT ![p] = [l EXCEPT !.i = nxt]]
             /\ Continue(p, IF l.acts[nxt].gear_id # NoGear THEN "gear_check" ELSE "upsert")
        ELSE IF Len(l.acts) < PER_PAGE
        THEN /\ loc' = [loc EXCEPT ![p] = l]
             /\ Continue(p, "update_sync")
        ELSE stravaFetch(p, [l EXCEPT !.page = @ + 1], "activities")

\* stravaFetch: the request is answered with 2xx
StravaFetch(p) ==
    /\ pc[p] = "strava_fetch"
    /\ LET l == loc[p]
           a == args[p]
       IN  \/ /\ l.path = "streams"
              /\ strava' = Append(strava, Asked(p, "streams", a.activityId, 0, 0, TRUE))
              /\ Continue(p, "streams_insert")
              /\ UNCHANGED loc
           \/ /\ l.path = "gear"
              /\ strava' = Append(strava, Asked(p, "gear", l.acts[l.i].gear_id, 0, 0, TRUE))
              /\ Continue(p, "gear_insert")
              /\ UNCHANGED loc
           \/ /\ l.path = "activities"
              /\ strava' = Append(strava, Asked(p, "activities", 0, l.page,
                                                lastSync(a.athlete), TRUE))
              /\ LET acts == ActivitiesPage(a.total, l.page)
                 IN  IF Len(acts) = 0
                     THEN /\ loc' = [loc EXCEPT ![p] = [l EXCEPT !.acts = acts]]
                          /\ Continue(p, "update_sync")
                     ELSE NextActivity(p, [l EXCEPT !.acts = acts], 1)
    /\ UNCHANGED <<race_events, race_finishers, race_events_id_seq, clock, args,
                   reqLog, snap, athletes, activities, gear, streams>>

\* ... if (!res.ok) throw new Error(`Strava ${path} ...`)
StravaFetchFails(p) ==
    /\ pc[p] = "strava_fetch"
    /\ LET l == loc[p]
       IN  strava' = Append(strava,
                Asked(p, l.path,
                      IF l.path = "streams" THEN args[p].activityId
                      ELSE IF l.path = "gear" THEN l.acts[l.i].gear_id ELSE 0,
                      IF l.path = "activities" THEN l.page ELSE 0,
                      IF l.path = "activities" THEN lastSync(args[p].athlete) ELSE 0,
                      FALSE))
    /\ FetchThrows(p)
    /\ UNCHANGED <<race_events, race_finishers, race_events_id_seq, clock, args, loc,
                   reqLog, snap, athletes, activities, gear, streams>>

\* getStreams: INSERT INTO streams ... ON CONFLICT (activity_id) DO NOTHING;
\* activity_id REFERENCES activities(strava_id)
InsertStreams(p) ==
    /\ pc[p] = "streams_insert"
    /\ LET row == [activity_id |-> args[p].activityId, by |-> args[p].inv]
       IN  IF \A a \in activities : a.strava_id # row.activity_id
           THEN /\ Throw(p, "db")
                /\ UNCHANGED streams
           ELSE /\ streams' = IF \E r \in streams : r.activity_id = row.activity_id
                              THEN streams ELSE streams \cup {row}
                /\ Return(p, [NoResult EXCEPT !.ok = TRUE, !.streams = {row}])
    /\ UNCHANGED <<race_events, race_finishers, race_events_id_seq, clock, args, loc,
                   reqLog, snap, athletes, activities, gear, strava>>

\* upsertGear: SELECT id FROM gear WHERE strava_id=$1; if (existing) return
CheckGear(p) ==
    /\ pc[p] = "gear_check"
    /\ IF loc[p].acts[loc[p].i].gear_id \in gear
       THEN /\ Continue(p, "upsert")
            /\ UNCHANGED loc
       ELSE stravaFetch(p, loc[p], "gear")
    /\ UNCHANGED <<race_events, race_finishers, race_events_id_seq, clock, args,
                   reqLog, snap, athletes, activities, gear, streams, strava>>

\* upsertGear: INSERT INTO gear ... ON CONFLICT (strava_id) DO UPDATE
InsertGear(p) ==
    /\ pc[p] = "gear_insert"
    /\ gear' = gear \cup {loc[p].acts[loc[p].i].gear_id}
    /\ Continue(p, "upsert")
    /\ UNCHANGED <<race_events, race_finishers, race_events_id_seq, clock, args, loc,
                   reqLog, snap, athletes, activities, streams, strava>>

\* fetchWeather (Open-Meteo, failures swallowed), then INSERT INTO activities
\* ... ON CONFLICT (strava_id) DO UPDATE; totalNew++
UpsertActivity(p) ==
    /\ pc[p] = "upsert"
    /\ LET l == loc[p]
           a == l.acts[l.i]
       IN  /\ activities' = {r \in activities : r.strava_id # a.id}
                               \cup {[strava_id |-> a.id, athlete_id |-> ATHLETE]}
           /\ NextActivity(p, [l EXCEPT !.totalNew = @ + 1], l.i + 1)
    /\ UNCHANGED <<race_events, race_finishers, race_events_id_seq, clock, args,
                   reqLog, snap, athletes, gear, streams, strava>>

\* UPDATE athletes SET last_sync_at=NOW() WHERE strava_id=$1
UpdateLastSync(p) ==
    /\ pc[p] = "update_sync"
    /\ athletes' = [athletes EXCEPT ![ATHLETE].last_sync_at = clock,
                                    ![ATHLETE].synced_by = args[p].inv]
    /\ Continue(p, "matches")
    /\ UNCHANGED <<race_events, race_finishers, race_events_id_seq, clock, args, loc,
                   reqLog, snap, activities, gear, streams, strava>>

\* const raceMatches = await findRaceMatches(...); return { newActivities, raceMatches }
FindRaceMatches(p) ==
    /\ pc[p] = "matches"
    /\ Return(p, [NoResult EXCEPT !.ok = TRUE, !.newActivities = loc[p].totalNew])
    /\ UNCHANGED <<race_events, race_finishers, race_events_id_seq, clock, args, loc,
                   reqLog, snap, athletes, activities, gear, streams, strava>>

\* How many activities Strava lists for the athlete's query
ActivityTotals == {0, 3, PER_PAGE + 1}

Running(q, entry) == pc[q] \notin {"idle", "done"} /\ args[q].entry = entry

\* The sessions of one athlete: a sync runs on its own, requests for the
\* streams of an activity may overlap each other
CallStrava(p) ==
    /\ clock < MaxStravaCalls
    /\ \A q \in Procs : ~Running(q, "syncActivities")
    /\ \/ /\ \A q \in Procs : ~Running(q, "getStreams")
          /\ \E total \in ActivityTotals, expired \in BOOLEAN :
                syncActivities(p, total, expired)
       \/ \E expired \in BOOLEAN : streamsRoute(p, 1, expired)

StepStrava(p) ==
    \/ VerifyOwner(p)
    \/ getStreams(p)
    \/ RefreshToken(p)
    \/ RefreshTokenFails(p)
    \/ SaveToken(p)
    \/ StravaFetch(p)
    \/ StravaFetchFails(p)
    \/ InsertStreams(p)
    \/ CheckGear(p)
    \/ InsertGear(p)
    \/ UpsertActivity(p)
    \/ UpdateLastSync(p)
    \/ FindRaceMatches(p)

NextStrava == \E p \in Procs : CallStrava(p) \/ StepStrava(p)

SpecStrava == Init /\ [][NextStrava]_vars

---------------------------------------------------------------------------
(* POST /api/races/:id/claim: link a bib to the logged-in athlete *)

\* The most operations of one session of imports and claims
MaxOps == 3

\* The handler up to its first await
claimRoute(p, id, bib) ==
    /\ Begin(p, [NoArgs EXCEPT !.kind = "claim", !.entry = "claim", !.id = id,
                                !.bib = bib])
    /\ loc' = [loc EXCEPT ![p] = NoLoc]
    /\ IF bib = ""
       THEN Return(p, [NoResult EXCEPT !.returned = TRUE, !.at = "400"])
       ELSE Enter(p, "claim_select")

\* SELECT id FROM race_finishers WHERE race_event_id = $1 AND bib = $2:
\* queryOne gives the first row, any of the matching ones
ClaimSelect(p) ==
    /\ pc[p] = "claim_select"
    /\ LET found == {f \in race_finishers :
                        f.race_event_id = args[p].id /\ f.src.bib = args[p].bib}
       IN  IF found = {}
           THEN /\ Return(p, [NoResult EXCEPT !.returned = TRUE, !.at = "404"])
                /\ UNCHANGED loc
           ELSE /\ \E f \in found : loc' = [loc EXCEPT ![p].finisher = <<f>>]
                /\ Continue(p, "claim_update")
    /\ UNCHANGED <<race_events, race_finishers, race_events_id_seq, clock, args,
                   reqLog, snap, athletes, activities, gear, streams, strava>>

\* UPDATE race_finishers SET athlete_id = $1 WHERE id = $2
ClaimUpdate(p) ==
    /\ pc[p] = "claim_update"
    /\ LET finisher == loc[p].finisher[1]
       IN  race_finishers' =
              {IF [f EXCEPT !.athlete_id = 0] = [finisher EXCEPT !.athlete_id = 0]
               THEN [f EXCEPT !.athlete_id = ATHLETE] ELSE f : f \in race_finishers}
    /\ Continue(p, "claim_lookup")
    /\ UNCHANGED <<race_events, race_events_id_seq, clock, args, loc,
                   reqLog, snap, athletes, activities, gear, streams, strava>>

\* lookupBib(req.params.id, bib) and res.json(result)
ClaimLookup(p) ==
    /\ pc[p] = "claim_lookup"
    /\ Return(p, [NoResult EXCEPT !.ok = TRUE, !.returned = TRUE])
    /\ UNCHANGED <<race_events, race_finishers, race_events_id_seq, clock, args, loc,
                   reqLog, snap, athletes, activities, gear, streams, strava>>

\* Imports and claims of one session, one operation at a time
CallClaim(p) ==
    /\ clock < MaxOps
    /\ \/ \E replace \in BOOLEAN : importRace(p, "sporthive", "1", "1", NoRace, replace, 37, 0)
       \/ \E replace \in BOOLEAN : importRaceResult(p, "1", replace, <<Plain(1, 37)>>, {1}, "")
       \/ main(p, ParsedOf(60, 0))
       \/ \E id \in 1..MaxOps, bib \in {"", "1", "2", "999"} : claimRoute(p, id, bib)

StepClaim(p) ==
    \/ StepConc(p)
    \/ ClaimSelect(p)
    \/ ClaimUpdate(p)
    \/ ClaimLookup(p)

NextClaim == \E p \in {1} : CallClaim(p) \/ StepClaim(p)

SpecClaim == Init /\ [][NextClaim]_vars

---------------------------------------------------------------------------
(* extractFinishers on the nested data of one page: *)
(* { "#1_Contest": { "#1_SubGroup": [[...rows...], [totalCount]] } } *)

\* A key "#n_label" of the nested data; n = 0 stands for a key without prefix
GroupKey(n, label) == [n |-> n, label |-> label]

\* key.replace(/^#\d+_/, '')
StripPrefix(key) == key.label

\* A data row of a sub-group, and the single-element row [totalCount]
ListRow(k, bib, name) == [single |-> FALSE, n |-> k, bib |-> bib, name |-> name]
TotalRow(total) == [single |-> TRUE, n |-> 0, bib |-> ToString(total), name |-> NoName]

SubGroup(key, rows) == [key |-> key, rows |-> rows]
ContestGroup(key, subGroups) == [key |-> key, subGroups |-> subGroups]

\* Mutant: the sub-groups without a label are read as well
SkipsNoSubGroup(subGroupName) ==
    FALSE

\* if (!subGroupName || subGroupName === '') continue
SkipsSubGroup(subGroupName) ==
    subGroupName = ""

\* if (!Array.isArray(row) || row.length === 1) continue
SkipsRow(row) ==
    row.single

\* The rows the two loops over a contest's sub-groups get to, as the adapter
\* reads them: bib from row[bibIdx], name from row[nameIdx]
RECURSIVE RowsOfSubGroups(_, _, _)
RowsOfSubGroups(contestName, subGroups, k) ==
    IF k > Len(subGroups) THEN <<>>
    ELSE (IF SkipsSubGroup(StripPrefix(subGroups[k].key)) THEN <<>>
          ELSE LET rows == SelectSeq(subGroups[k].rows, LAMBDA r : ~SkipsRow(r))
               IN  [i \in 1..Len(rows) |->
                       SourceRow(contestName, rows[i].n, rows[i].bib, rows[i].name,
                                 3600 + rows[i].n)])
         \o RowsOfSubGroups(contestName, subGroups, k + 1)

RECURSIVE RowsOfData(_, _)
RowsOfData(data, c) ==
    IF c > Len(data) THEN <<>>
    ELSE RowsOfSubGroups(StripPrefix(data[c].key), data[c].subGroups, 1)
            \o RowsOfData(data, c + 1)

\* extractFinishers(data, dataFields)
extractFinishersOfData(data) ==
    extractFinishers(RowsOfData(data, 1))

\* The pages: an unnamed sub-group (bib-only, or carrying the names too),
\* the Female and the Male sub-group, in either order, of one or two contests
UnnamedSubGroups ==
    {<<>>,
     <<SubGroup(GroupKey(1, ""), <<ListRow(1, "1", NoName), ListRow(2, "2", NoName),
                                    TotalRow(2)>>)>>,
     <<SubGroup(GroupKey(1, ""), <<ListRow(1, "1", "Ana"), ListRow(2, "2", "Ben"),
                                    TotalRow(2)>>)>>,
     <<SubGroup(GroupKey(0, ""), <<ListRow(1, "1", "Ana"), TotalRow(1)>>)>>}

FemaleSubGroups ==
    {<<>>,
     <<SubGroup(GroupKey(2, "Female"), <<ListRow(1, "1", "Ana"), TotalRow(1)>>)>>,
     <<SubGroup(GroupKey(2, "Female"), <<ListRow(1, "1", "Ana"), ListRow(3, "3", NoName),
                                          TotalRow(2)>>)>>,
     <<SubGroup(GroupKey(2, "Female"), <<TotalRow(0)>>)>>}

MaleSubGroups ==
    {<<>>,
     <<SubGroup(GroupKey(3, "Male"), <<ListRow(2, "2", "Ben"), TotalRow(1)>>)>>,
     <<SubGroup(GroupKey(3, "Male"), <<ListRow(2, "2", "Ben")>>)>>}

SecondContests ==
    {<<>>,
     <<ContestGroup(GroupKey(2, "Walk"),
                    <<SubGroup(GroupKey(1, ""), <<ListRow(1, "1", NoName), TotalRow(1)>>),
                      SubGroup(GroupKey(2, "Female"), <<ListRow(1, "1", "Cleo"),
                                                        TotalRow(1)>>)>>)>>}

Pages ==
    {<<ContestGroup(GroupKey(1, "Run"), sg)>> \o second :
        sg \in {u \o f \o m : u \in UnnamedSubGroups, f \in FemaleSubGroups,
                              m \in MaleSubGroups}
               \cup {f \o m \o u : u \in UnnamedSubGroups, f \in FemaleSubGroups,
                                   m \in MaleSubGroups},
        second \in SecondContests}

CallExtract(p) ==
    /\ pc[p] = "idle"
    /\ \E data \in Pages :
          /\ Begin(p, [NoArgs EXCEPT !.kind = "extract", !.entry = "extractFinishers",
                                      !.source = data])
          /\ loc' = [loc EXCEPT ![p] = [NoLoc EXCEPT !.finishers =
                                            extractFinishersOfData(data)]]
    /\ Continue(p, "done")

NextExtract == \E p \in {1} : CallExtract(p)

SpecExtract == Init /\ [][NextExtract]_vars

---------------------------------------------------------------------------
(* The time functions on their own: a token is parsed, the seconds are       *)
(* formatted, and the formatted text is parsed again                         *)

MaxTokenParts == 4

\* What stands between the colons of a token
TokenParts == {"0", "00", "1", "21", "37", "", "x"}

Tokens == UNION {[1..n -> TokenParts] : n \in 0..MaxTokenParts}

TimeFns == {"parseTime", "parseTimeToSeconds"}

ParseWith(fn, val) ==
    IF fn = "parseTime" THEN parseTime(val) ELSE parseTimeToSeconds(val)

CallParse(p) ==
    /\ pc[p] = "idle"
    /\ \E fn \in TimeFns, val \in Tokens :
          /\ Begin(p, [NoArgs EXCEPT !.kind = fn, !.text = val])
          /\ loc' = [loc EXCEPT ![p] = [seconds |-> ParseWith(fn, val),
                                        formatted |-> <<>>, reparsed |-> Null]]
    /\ Continue(p, "parsed")

CallFormat(p) ==
    /\ pc[p] = "parsed"
    /\ loc' = [loc EXCEPT ![p].formatted = fmtTime(loc[p].seconds)]
    /\ Continue(p, "formatted")
    /\ UNCHANGED <<race_events, race_finishers, race_events_id_seq, clock, athletes, activities, gear, streams, strava, args, reqLog, snap>>

CallReparse(p) ==
    /\ pc[p] = "formatted"
    /\ loc' = [loc EXCEPT ![p].reparsed = ParseWith(args[p].kind, loc[p].formatted)]
    /\ Continue(p, "done")
    /\ UNCHANGED <<race_events, race_finishers, race_events_id_seq, clock, athletes, activities, gear, streams, strava, args, reqLog, snap>>

NextTime == \E p \in {1} : CallParse(p) \/ CallFormat(p) \/ CallReparse(p)

SpecTime == Init /\ [][NextTime]_vars

---------------------------------------------------------------------------
(* Vocabulary of the properties *)

Tables == <<race_events, race_finishers>>
SnapTables(p) == <<snap[p].events, snap[p].finishers>>

\* The invocation of p is an import through the admin route
Importing(p) == args[p].entry \in {"importRace", "importRaceResult"}

\* Rows of the pair p works on, now and when p was called
PairEvents(p) == EventsOf(race_events, args[p].eventId, args[p].raceId)
PairFinishers(p) == FinishersOf(race_finishers, PairEvents(p))
SnapPairEvents(p) == EventsOf(snap[p].events, args[p].eventId, args[p].raceId)
SnapPairFinishers(p) == FinishersOf(snap[p].finishers, SnapPairEvents(p))

RECURSIVE Received(_, _)
\* Rows received by the first k requests of a log
Received(log, k) ==
    IF k = 0 THEN 0 ELSE Received(log, k - 1) + Max(0, log[k].len)

RECURSIVE Flatten(_, _)
\* The pages of the first k requests of a log, one after the other
Flatten(log, k) ==
    IF k = 0 THEN <<>> ELSE Flatten(log, k - 1) \o log[k].rows

---------------------------------------------------------------------------
(* C10: the Sporthive crawl asks for pages in order, each from the offset    *)
(* that equals the rows received so far; every page before the last is full, *)
(* the crawl returns exactly when a page is short (or empty) and asks for    *)
(* nothing after it; what it returns is the pages joined in request order;   *)
(* against a source that runs dry it ends, against one that never does it    *)
(* never returns; pages of 100, 100 and 37 rows give three requests and 237  *)
(* finishers.                                                                *)

CrawlShape(p) ==
    LET log == reqLog[p]
        pageSize == PageSizeOf(args[p].kind)
        n == Len(log)
    IN  /\ \A k \in 1..n : log[k].op = "page" /\ log[k].arg = Received(log, k - 1)
        /\ \A k \in 1..(n - 1) : log[k].len >= pageSize
        /\ loc[p].finishers = Flatten(log, n)
        /\ result[p].returned <=> (n > 0 /\ log[n].len >= 0 /\ log[n].len < pageSize)
        /\ result[p].returned => pc[p] = "done" /\ result[p].total_finishers = Received(log, n)
        /\ args[p].source = <<Endless>> => ~result[p].returned

CrawlExample(p) ==
    (args[p].kind = "sporthive" /\ args[p].source = <<237>> /\ pc[p] = "done"
        /\ ~result[p].threw)
    => /\ Len(reqLog[p]) = 3
       /\ [k \in 1..3 |-> reqLog[p][k].len] = <<100, 100, 37>>
       /\ Len(loc[p].finishers) = 237
       /\ result[p].returned

CrawlInv ==
    args[1].entry = "fetchAllFinishers" => CrawlShape(1) /\ CrawlExample(1)

C10_Crawl ==
    /\ []CrawlInv
    /\ (pc[1] = "crawl" /\ args[1].source # <<Endless>>) ~> (pc[1] = "done")

C10_Witness ==
    /\ args[1].kind = "sporthive" /\ args[1].source = <<237>>
    /\ result[1].returned /\ Len(reqLog[1]) = 3 /\ Len(loc[1].finishers) = 237

---------------------------------------------------------------------------
(* C1: once a pair has been imported, importing it again with replace=false  *)
(* returns already_imported (ok false) and leaves the pair with as many      *)
(* finisher rows as before, whatever the upstream holds by then (the call     *)
(* returns unless the lookup query itself is rejected by the database).      *)

C1_Idempotent ==
    \A p \in Procs :
        (Importing(p) /\ pc[p] = "done" /\ ~args[p].replace /\ args[p].raceId # NoRace
            /\ SnapPairEvents(p) # {})
        => /\ ~(result[p].threw /\ result[p].at = "check")
                => result[p].already_imported /\ ~result[p].ok /\ ~result[p].threw
           /\ Cardinality(PairFinishers(p)) = Cardinality(SnapPairFinishers(p))

\* The first import succeeded with 100 finishers; the upstream now holds 37
C1_Witness ==
    /\ Importing(1) /\ pc[1] = "done" /\ ~args[1].replace
    /\ result[1].already_imported
    /\ args[1].kind \in SporthiveKinds /\ args[1].source = <<37>>
    /\ \E e \in SnapPairEvents(1) :
          /\ e.total_finishers = 100
          /\ Cardinality(SnapPairFinishers(1)) = 100
    /\ Cardinality(PairFinishers(1)) = 100

---------------------------------------------------------------------------
(* C2: a successful replace import of a pair that has a RaceEvent with N     *)
(* finishers, crawling M finishers, leaves exactly one RaceEvent for the     *)
(* pair with exactly the M crawled finishers attached, and no finisher row   *)
(* of the earlier import anywhere in storage.                                *)

C2_Replace ==
    \A p \in Procs :
        (Importing(p) /\ pc[p] = "done" /\ result[p].ok /\ args[p].replace
            /\ SnapPairEvents(p) # {})
        => /\ Cardinality(PairEvents(p)) = 1
           /\ \A e \in PairEvents(p) :
                 /\ e.id = result[p].race_event_id
                 /\ e.total_finishers = Len(loc[p].finishers)
           /\ Cardinality(PairFinishers(p)) = Len(loc[p].finishers)
           /\ {f.src : f \in PairFinishers(p)} = Range(loc[p].finishers)
           /\ \A f \in PairFinishers(p) : f.by = args[p].inv
           /\ SnapPairFinishers(p) \cap race_finishers = {}
           /\ \A f \in race_finishers :
                 f.race_event_id \notin {e.id : e \in SnapPairEvents(p)}

\* N = 100 finishers replaced by M = 37
C2_Witness ==
    /\ Importing(1) /\ pc[1] = "done" /\ result[1].ok /\ args[1].replace
    /\ Cardinality(SnapPairFinishers(1)) = 100
    /\ Len(loc[1].finishers) = 37
    /\ Cardinality(PairFinishers(1)) = 37

---------------------------------------------------------------------------
(* C3: storage never holds two RaceEvent rows for one                        *)
(* (source-event-id, source-race-id) pair.                                   *)

C3_UniquePair ==
    \A e1, e2 \in race_events :
        (e1.sporthive_event_id = e2.sporthive_event_id
            /\ e1.sporthive_race_id = e2.sporthive_race_id) => e1 = e2

\* Two imports of one pair overlap: one has inserted the event row, the
\* other, which saw no row when it checked, is about to insert it too
C3_Witness ==
    /\ pc[1] = "insert_batch" /\ pc[2] = "insert_event"
    /\ args[1].eventId = args[2].eventId /\ CurRaceId(1) = CurRaceId(2)
    /\ loc[2].existing.id = 0
    /\ PairEvents(1) # {}

---------------------------------------------------------------------------
(* C4: an import that ends in failure has left no RaceEvent row and no       *)
(* Finisher row of its own in storage.                                       *)

C4_NoPartialPersist ==
    \A p \in Procs :
        (Importing(p) /\ pc[p] = "done" /\ result[p].threw)
        => /\ \A e \in race_events : e.imported_at # args[p].inv
           /\ \A f \in race_finishers : f.by # args[p].inv

---------------------------------------------------------------------------
(* C5: while a replace import of an imported pair is still crawling, and     *)
(* when its crawl fails (upstream error, discovery failure), both tables are *)
(* as they were at the call: the delete comes only after the whole crawl.    *)

C5_CrawlBeforeDelete ==
    \A p \in Procs :
        (Importing(p) /\ args[p].replace /\ SnapPairEvents(p) # {})
        => /\ ~loc[p].crawled => Tables = SnapTables(p)
           /\ (pc[p] = "done" /\ result[p].threw
                 /\ result[p].at \in {"upstream", "discovery"})
              => Tables = SnapTables(p)

\* A replace of an imported pair whose second page request failed
C5_Witness ==
    /\ Importing(1) /\ args[1].replace /\ SnapPairFinishers(1) # {}
    /\ pc[1] = "done" /\ result[1].threw /\ result[1].at = "upstream"
    /\ Len(reqLog[1]) = 2
    /\ Tables = SnapTables(1)

---------------------------------------------------------------------------
(* C6: a crawl that completes with zero finishers makes the import throw     *)
(* without any storage write, for either adapter and either replace flag.    *)

C6_EmptyCrawl ==
    \A p \in Procs :
        (Importing(p) /\ loc[p].crawled /\ Len(loc[p].finishers) = 0)
        => /\ pc[p] = "done" /\ result[p].threw /\ result[p].at = "empty"
           /\ Tables = SnapTables(p)

\* A RaceResult replace of an imported event finds no named row
C6_Witness ==
    /\ args[1].entry = "importRaceResult" /\ args[1].replace
    /\ loc[1].crawled /\ Len(loc[1].finishers) = 0
    /\ SnapPairFinishers(1) # {}
    /\ result[1].threw /\ PairFinishers(1) = SnapPairFinishers(1)

---------------------------------------------------------------------------
(* C7: an import with replace=false of a pair that has a RaceEvent writes    *)
(* nothing (every row, total_finishers and imported_at included, is as       *)
(* before) and sends no upstream request.                                    *)

C7_NoTouch ==
    \A p \in Procs :
        (Importing(p) /\ ~args[p].replace /\ args[p].raceId # NoRace
            /\ SnapPairEvents(p) # {} /\ pc[p] # "check")
        => /\ Tables = SnapTables(p)
           /\ reqLog[p] = <<>>
           /\ pc[p] = "done"

C7_Witness ==
    /\ args[1].entry = "importRaceResult" /\ ~args[1].replace
    /\ pc[1] = "done" /\ result[1].already_imported
    /\ reqLog[1] = <<>> /\ race_events # {} /\ Tables = SnapTables(1)

---------------------------------------------------------------------------
(* C8: every Finisher row references exactly one stored RaceEvent row, in    *)
(* every state; an event row is only deleted once no finisher references it, *)
(* and finishers are only inserted for an event row already stored.          *)

ForeignKeyHolds ==
    \A f \in race_finishers :
        Cardinality({e \in race_events : e.id = f.race_event_id}) = 1

DeleteAndInsertOrder ==
    /\ \A e \in race_events \ race_events' :
          {f \in race_finishers : f.race_event_id = e.id} = {}
    /\ \A f \in race_finishers' \ race_finishers :
          f.race_event_id \in {e.id : e \in race_events}

C8_Ownership ==
    []ForeignKeyHolds /\ [][DeleteAndInsertOrder]_vars

\* Half-way through a replace: the old rows are gone, the new event row and
\* its first batch are stored, the second batch is not yet
C8_Witness ==
    /\ Importing(1) /\ args[1].replace /\ loc[1].existing.id # 0
    /\ pc[1] = "insert_batch" /\ loc[1].i = BATCH
    /\ Cardinality(PairFinishers(1)) = BATCH
    /\ SnapPairFinishers(1) # {} /\ SnapPairFinishers(1) \cap race_finishers = {}

---------------------------------------------------------------------------
(* C9: when imports of two different pairs overlap, a step of one import     *)
(* leaves every RaceEvent and Finisher row outside its own pair as it was,   *)
(* and what an import leaves for its pair is what it would leave running     *)
(* alone: its own crawled rows under one new event row when it succeeds, the *)
(* rows the pair had at the call when it returns early or its crawl fails.   *)

\* p took a step
Stepped(p) ==
    <<pc[p], loc[p], args[p], result[p], reqLog[p]>>
        # <<pc'[p], loc'[p], args'[p], result'[p], reqLog'[p]>>

DisjointFrame ==
    \A p \in Procs :
        Stepped(p) =>
            LET own == EventsOf(race_events, args'[p].eventId, args'[p].raceId)
                ownAfter == EventsOf(race_events', args'[p].eventId, args'[p].raceId)
            IN  /\ race_events \ own = race_events' \ ownAfter
                /\ race_finishers \ FinishersOf(race_finishers, own)
                      = race_finishers' \ FinishersOf(race_finishers', ownAfter)

AsIfAlone ==
    \A p \in Procs :
        (Importing(p) /\ pc[p] = "done")
        => /\ result[p].ok
                => /\ Cardinality(PairEvents(p)) = 1
                   /\ \A e \in PairEvents(p) :
                         /\ e.id = result[p].race_event_id
                         /\ e.imported_at = args[p].inv
                         /\ e.total_finishers = Len(loc[p].finishers)
                   /\ {[src |-> f.src, by |-> f.by] : f \in PairFinishers(p)}
                         = {[src |-> r, by |-> args[p].inv] : r \in Range(loc[p].finishers)}
                   /\ Cardinality(PairFinishers(p)) = Len(loc[p].finishers)
           /\ (result[p].already_imported
                 \/ (result[p].threw
                       /\ result[p].at \in {"check", "upstream", "discovery", "empty"}))
                => /\ PairEvents(p) = SnapPairEvents(p)
                   /\ PairFinishers(p) = SnapPairFinishers(p)

C9_Disjoint ==
    []AsIfAlone /\ [][DisjointFrame]_vars

\* The Sporthive replace is between its first and its second batch, its old
\* rows deleted, while the RaceResult import, called after it and holding its
\* new event row, is about to insert its finishers
C9_Witness ==
    /\ args[1].replace /\ loc[1].existing.id # 0
    /\ pc[1] = "insert_batch" /\ loc[1].i = BATCH
    /\ Cardinality(PairFinishers(1)) = BATCH
    /\ SnapPairFinishers(1) # {} /\ SnapPairFinishers(1) \cap race_finishers = {}
    /\ args[2].inv > args[1].inv
    /\ pc[2] = "insert_batch" /\ PairEvents(2) # {} /\ PairFinishers(2) = {}

---------------------------------------------------------------------------
(* C11: a 404 from Sporthive ends the crawl like an empty page, without      *)
(* error, and the import goes on with the rows of the earlier pages; any     *)
(* other failed page request, Sporthive or RaceResult, ends the import with  *)
(* an error and nothing of what was fetched before is stored.                *)

C11_NotFound ==
    \A p \in Procs :
        Importing(p) =>
            LET log == reqLog[p]
                n == Len(log)
            IN  \A k \in 1..n :
                    /\ (log[k].op = "page" /\ log[k].status = 404)
                         => /\ k = n /\ loc[p].crawled
                            /\ loc[p].finishers = Flatten(log, n)
                            /\ ~(result[p].threw /\ result[p].at = "upstream")
                            /\ (pc[p] = "done" /\ result[p].ok)
                                 => {f.src : f \in PairFinishers(p)}
                                      = Range(Flatten(log, n))
                    /\ (log[k].op \in {"page", "list"} /\ log[k].status # 200
                           /\ ~(log[k].op = "page" /\ log[k].status = 404))
                         => /\ k = n /\ pc[p] = "done"
                            /\ result[p].threw /\ result[p].at = "upstream"
                            /\ Tables = SnapTables(p)

\* A full first page, then a 404: the import stores the 100 rows
C11_Witness ==
    /\ Importing(1) /\ args[1].kind = "sporthive" /\ Len(reqLog[1]) = 2
    /\ reqLog[1][1].len = PAGE_SIZE /\ reqLog[1][2].status = 404
    /\ pc[1] = "done" /\ result[1].ok
    /\ Cardinality(PairFinishers(1)) = PAGE_SIZE

---------------------------------------------------------------------------
(* C12: whenever a network call of an import has thrown (non-success status, *)
(* timeout, network error), discovery probes included, the import ends in    *)
(* failure: no finished import that had a call throw has returned a result.  *)

C12_ErrorsSurface ==
    \A p \in Procs :
        (Importing(p) /\ pc[p] = "done"
            /\ \E k \in 1..Len(reqLog[p]) : reqLog[p][k].len < 0)
        => result[p].threw

---------------------------------------------------------------------------
(* C13: within one import every request but the first is sent only after the *)
(* politeness delay has elapsed since the request before it (requests are    *)
(* sent one at a time: each is awaited before the next is built).            *)

C13_Paced ==
    \A p \in Procs :
        Importing(p) => \A k \in 2..Len(reqLog[p]) : reqLog[p][k].waited

---------------------------------------------------------------------------
(* C14: a RaceResult import without a list name in which no candidate probe  *)
(* yielded data (empty answer or thrown) has probed all candidates, fails    *)
(* with the discovery error and has written nothing; an import given a list  *)
(* name probes that list name once, first, and probes no candidate.          *)

C14_Discovery ==
    \A p \in Procs :
        args[p].entry = "importRaceResult" =>
            LET log == reqLog[p]
                probes == {k \in 1..Len(log) : log[k].op = "probe"}
            IN  /\ (args[p].listname = "" /\ pc[p] = "done"
                       /\ ~result[p].already_imported
                       /\ ~(result[p].threw /\ result[p].at = "check")
                       /\ \A k \in probes : log[k].len <= 0)
                     => /\ result[p].threw /\ result[p].at = "discovery"
                        /\ Len(log) = Len(candidates)
                        /\ [k \in 1..Len(log) |-> log[k].arg] = [k \in 1..Len(candidates) |-> k]
                        /\ Tables = SnapTables(p)
                /\ args[p].listname # ""
                     => /\ probes \subseteq {1}
                        /\ \A k \in probes : log[k].arg = 0
                        /\ Len(log) > 0 => 1 \in probes

\* A replace of an imported event: four candidates answer without data, one
\* probe throws, the import fails and the earlier rows are still there
C14_Witness ==
    /\ args[1].entry = "importRaceResult" /\ args[1].listname = "" /\ args[1].replace
    /\ pc[1] = "done" /\ result[1].threw /\ result[1].at = "discovery"
    /\ Len(reqLog[1]) = Len(candidates)
    /\ \E k \in 1..Len(reqLog[1]) : reqLog[1][k].len < 0
    /\ \E k \in 1..Len(reqLog[1]) : reqLog[1][k].len = 0
    /\ SnapPairFinishers(1) # {} /\ Tables = SnapTables(1)

---------------------------------------------------------------------------
(* C15: once the RaceResult crawl has completed, every named data row of     *)
(* every contest of the list, on whatever page the source serves it, has a   *)
(* finisher with its contest and bib in the crawl's output.                  *)

\* The named rows the source holds for a contest
NamedRows(d) ==
    {RawRow(d, k) : k \in (1..d.rows) \ d.unnamed}

CrawledPairs(p) ==
    {<<f.grp, f.bib>> : f \in Range(loc[p].finishers)}

C15_Complete ==
    \A p \in Procs :
        (args[p].entry = "importRaceResult" /\ loc[p].crawled)
        => \A c \in 1..Len(ListedContests(args[p])) :
              {<<r.grp, r.bib>> : r \in NamedRows(ListedContests(args[p])[c])}
                  \subseteq CrawledPairs(p)

---------------------------------------------------------------------------
(* C16: the output of a completed RaceResult crawl holds exactly one         *)
(* finisher for each distinct (contest, bib) pair among the extracted rows,  *)
(* and it is the first row of that pair the crawl came across; the same bib  *)
(* under two contests stays twice.                                           *)

\* The rows extracted from the list pages, in the order the crawl met them
Extracted(p) ==
    extractFinishers(Flatten(reqLog[p], Len(reqLog[p])))

PairOf(f) == <<f.grp, f.bib>>

FirstOfPair(ext, i) ==
    \A j \in 1..(i - 1) : PairOf(ext[j]) # PairOf(ext[i])

C16_OnePerPair ==
    \A p \in Procs :
        (args[p].entry = "importRaceResult" /\ pc[p] = "insert_event")
        => LET ext == Extracted(p)
               out == Range(loc[p].finishers)
           IN  /\ Cardinality({PairOf(f) : f \in out}) = Len(loc[p].finishers)
               /\ \A i \in 1..Len(ext) :
                     (ext[i] \in out) <=> FirstOfPair(ext, i)

---------------------------------------------------------------------------
(* C17: after a RaceResult import of rows without a rank, the persisted      *)
(* ranks are exactly 1..n, a finisher with a smaller chip time never has a   *)
(* larger rank, and every finisher without a chip time is ranked after every *)
(* finisher with one, whatever the chip times are.                           *)

HasChipTime(f) == f.chipTime # 0

Persisted(p) == {f.src : f \in PairFinishers(p)}

C17_Ranks ==
    \A p \in Procs :
        (args[p].entry = "importRaceResult" /\ pc[p] = "done" /\ result[p].ok)
        => LET fs == Persisted(p)
           IN  /\ {f.rank : f \in fs} = 1..Cardinality(fs)
               /\ \A f, g \in fs :
                     (HasChipTime(f) /\ HasChipTime(g) /\ f.chipTime < g.chipTime)
                         => f.rank <= g.rank
               /\ \A f, g \in fs :
                     (HasChipTime(f) /\ ~HasChipTime(g)) => f.rank < g.rank

---------------------------------------------------------------------------
(* C18: in every reachable state no persisted finisher has a null or empty   *)
(* name: source rows without a name are discarded by each source before      *)
(* anything is stored.                                                       *)

C18_Named ==
    \A f \in race_finishers : f.src.name # NoName

---------------------------------------------------------------------------
(* C19: for every bib with an age-group record in a race, the merged record  *)
(* carries as overallRank a rank the bib has among the bib-only rows after   *)
(* the race header and as genderRank a rank it has in the gender section     *)
(* (null when the bib is not there), and its ageGroupRank, chip time, label  *)
(* and name are those of an age-group row of the bib; the text with bibs 1-3 *)
(* after "Half Marathon", bib 2 under "Female" and bib 2, Jane Doe, rank 1,  *)
(* 1:45:00 under "Female 30-34" merges bib 2 to ranks 2, 1, 1 and 6300 s.    *)

ExampleText ==
    <<Line("Half Marathon")>> \o OverallRows(<<"1", "2", "3">>)
        \o <<Line("Female"), DataRow(1, "2", "2", "", <<<<"1", "45", "00">>>>),
             Line("Female 30-34"),
             DataRow(1, "2", "Jane Doe", "", <<<<"1", "45", "00">>>>)>>

ExampleRecord ==
    [bib |-> "2", name |-> "Jane Doe", gender |-> 2, ageGroup |-> "Female 30-34",
     ageGroupRank |-> 1, chipTimeS |-> 6300, overallRank |-> 2, genderRank |-> 1]

\* The variables line i of a text is read with
VarsAt(text, i) ==
    VarsBefore(text, {j \in 1..Len(text) : IsRaceHeader(text[j])},
               {j \in 1..Len(text) : IsHeader(text[j])}, i)

\* The data rows of a text that stand in a section of a race
SectionRows(text, key, sectionType) ==
    {i \in 1..Len(text) :
        /\ text[i].row /\ text[i].times # <<>>
        /\ VarsAt(text, i).currentRace = key
        /\ VarsAt(text, i).sectionType = sectionType}

\* rank is a rank the bib has among the rows, null when it has none
RankFrom(text, rows, bib, rank) ==
    IF \E i \in rows : text[i].bib = bib
    THEN \E i \in rows : text[i].bib = bib /\ text[i].rank = rank
    ELSE rank = Null

FromAgeGroupRow(text, i, f) ==
    /\ f.bib = text[i].bib
    /\ f.ageGroupRank = text[i].rank
    /\ f.chipTimeS = parseTime(text[i].times[Len(text[i].times)])
    /\ f.ageGroup = (IF text[i].inline # "" THEN text[i].inline
                     ELSE VarsAt(text, i).ageGroup)
    /\ f.name = (IF text[i].name = text[i].bib THEN NoName ELSE text[i].name)

---------------------------------------------------------------------------
(* C20: each race label of the text (Half Marathon, 5K, Silla de ruedas)     *)
(* has its own maps in the parser's output: the maps its rows go to hold     *)
(* what the rows under that label alone give, whatever stands under the      *)
(* other labels, also rows with the same bib.                                *)

RaceLabelsIn(text) ==
    {text[j].text : j \in {i \in 1..Len(text) : IsRaceHeader(text[i])}}

\* The lines of a text from each header of the race label to the next race
\* header
OwnLines(text, label) ==
    LET n == Len(text)
        raceHeaders == {j \in 1..n : IsRaceHeader(text[j])}
        own(i) == LET r == LastBefore(raceHeaders, i + 1)
                  IN  r # 0 /\ text[r].text = label
    IN  SelectSeq(SubSeq([i \in 1..n |-> [at |-> i, line |-> text[i]]], 1, n),
                  LAMBDA e : own(e.at))

KeyIdx(key) == CHOOSE i \in 1..Len(RaceKeys) : RaceKeys[i] = key

C20_OwnMaps ==
    \A p \in Procs :
        args[p].entry = "main"
        => \A label \in RaceLabelsIn(args[p].text) :
              LET own == OwnLines(args[p].text, label)
                  alone == parsePDF([k \in 1..Len(own) |-> own[k].line])
                  r == KeyIdx(RaceKeyOf(label))
              IN  args[p].source[r] = alone[r]

---------------------------------------------------------------------------
(* C21: in the PDF batch import a race with zero merged finishers causes no  *)
(* storage write for that race (its RaceEvent rows and their finishers stay  *)
(* as they were at the call, an earlier import of it included), it raises no *)
(* error (the run fails only where a database statement fails, on a race     *)
(* that has finishers), and a run that returns has imported every race that  *)
(* has finishers.                                                            *)

MergedCount(p, r) == Len(buildFinishers(args[p].source[r]))

PdfEvents(events, r) == EventsOf(events, EVENT_ID, RaceKeys[r])

C21_EmptyRaceSkipped ==
    \A p \in Procs :
        args[p].entry = "main"
        => /\ \A r \in 1..Len(RaceKeys) :
                 MergedCount(p, r) = 0
                 => /\ PdfEvents(race_events, r) = PdfEvents(snap[p].events, r)
                    /\ FinishersOf(race_finishers, PdfEvents(race_events, r))
                          = FinishersOf(snap[p].finishers, PdfEvents(snap[p].events, r))
           /\ result[p].threw
                 => /\ result[p].at \in DbPcs
                    /\ loc[p].raceIdx # 0 /\ MergedCount(p, loc[p].raceIdx) > 0
           /\ (pc[p] = "done" /\ ~result[p].threw)
                 => /\ result[p].ok
                    /\ \A r \in 1..Len(RaceKeys) :
                          MergedCount(p, r) > 0
                          => \E e \in PdfEvents(race_events, r) :
                                /\ e.imported_at = args[p].inv
                                /\ e.total_finishers = MergedCount(p, r)
                                /\ Cardinality(FinishersOf(race_finishers, {e}))
                                      = MergedCount(p, r)

\* A document without Half Marathon rows has been imported over an earlier
\* import of both races: the Half Marathon rows are the earlier ones, the 5K
\* rows are new
C21_Witness ==
    /\ args[1].entry = "main" /\ pc[1] = "done" /\ result[1].ok
    /\ MergedCount(1, 1) = 0 /\ MergedCount(1, 2) > 0
    /\ \E e \in PdfEvents(race_events, 1) :
          /\ e.imported_at < args[1].inv
          /\ FinishersOf(race_finishers, {e}) # {}
    /\ \E e \in PdfEvents(race_events, 2) : e.imported_at = args[1].inv
    /\ PdfEvents(snap[1].events, 2) # {}

---------------------------------------------------------------------------
(* C22: a Sporthive import whose URL embeds no race id and that is given no  *)
(* raceId returns needs_race_selection (or fails on the request for the      *)
(* event's races), never reaches a database statement and requests no page   *)
(* of finishers; when the URL embeds a race id and a raceId is given too,    *)
(* the pair that is looked up, crawled and stored is that of the raceId.     *)

NoPageRequest(p) ==
    \A k \in 1..Len(reqLog[p]) : reqLog[p][k].op # "page"

C22_RaceSelection ==
    \A p \in Procs :
        args[p].entry = "importRace"
        => /\ (args[p].urlRaceId = NoRace /\ args[p].explicitRaceId = NoRace)
                 => /\ pc[p] \in {"event_races", "done"}
                    /\ pc[p] = "done"
                          => \/ result[p].needs_race_selection
                             \/ result[p].threw /\ result[p].at = "upstream"
                    /\ NoPageRequest(p)
                    /\ Tables = SnapTables(p)
           /\ (args[p].urlRaceId # NoRace /\ args[p].explicitRaceId # NoRace)
                 => /\ CurRaceId(p) = args[p].explicitRaceId
                    /\ (pc[p] = "done" /\ result[p].ok)
                          => \E e \in race_events :
                                /\ e.id = result[p].race_event_id
                                /\ e.sporthive_race_id = args[p].explicitRaceId

---------------------------------------------------------------------------
(* C23: every import call ends in exactly one outcome: already present,      *)
(* failed, or written with a summary (a request for a race selection counted *)
(* with the outcomes that write nothing); nothing is written in the first    *)
(* two, and a result with ok true comes with the RaceEvent of the pair in    *)
(* storage, whose total_finishers equals that of the result and the number   *)
(* of finisher rows attached to it.                                          *)

Outcomes(r) ==
    {o \in {"already", "failed", "written", "selection"} :
        \/ o = "already" /\ r.already_imported
        \/ o = "failed" /\ r.threw
        \/ o = "written" /\ r.ok
        \/ o = "selection" /\ r.needs_race_selection}

C23_Outcomes ==
    \A p \in Procs :
        (Importing(p) /\ pc[p] = "done")
        => /\ Cardinality(Outcomes(result[p])) = 1
           /\ Outcomes(result[p]) # {"written"} => Tables = SnapTables(p)
           /\ result[p].ok
                 => \E e \in PairEvents(p) :
                       /\ e.id = result[p].race_event_id
                       /\ e.total_finishers = result[p].total_finishers
                       /\ Cardinality(FinishersOf(race_finishers, {e}))
                             = result[p].total_finishers

---------------------------------------------------------------------------
(* C24: the breakdown of a successful import maps every category label that  *)
(* an inserted finisher carries to the number of inserted finishers carrying *)
(* it, its counts add up to the number of inserted finishers, and the sample *)
(* is the first min(3, n) inserted records in insertion order.               *)

\* The rows of the event the import created, as inserted
InsertedRows(p) ==
    {f.src : f \in {g \in race_finishers : g.race_event_id = result[p].race_event_id}}

RECURSIVE SumOver(_, _)
SumOver(b, S) ==
    IF S = {} THEN 0
    ELSE LET c == CHOOSE c \in S : TRUE IN b[c] + SumOver(b, S \ {c})

C24_Breakdown ==
    \A p \in Procs :
        (Importing(p) /\ pc[p] = "done" /\ result[p].ok)
        => LET b == result[p].age_group_breakdown
               rows == InsertedRows(p)
               fs == loc[p].finishers
           IN  /\ \A c \in {f.category : f \in rows} \ {NoCategory} :
                     /\ c \in DOMAIN b
                     /\ b[c] = Cardinality({f \in rows : f.category = c})
               /\ SumOver(b, DOMAIN b) = Cardinality(rows)
               /\ Range(fs) = rows
               /\ Len(result[p].sample) = Min(3, Len(fs))
               /\ \A k \in 1..Len(result[p].sample) :
                     /\ result[p].sample[k].bib = fs[k].bib
                     /\ result[p].sample[k].name = fs[k].name
                     /\ result[p].sample[k].rank = fs[k].rank
                     /\ result[p].sample[k].category = fs[k].category

---------------------------------------------------------------------------
(* C25: time parsing gives hours*3600 + minutes*60 + seconds for H:MM:SS and *)
(* minutes*60 + seconds for MM:SS ("1:21:37" is 4897, "21:37" is 1297), and  *)
(* gives the unparseable value, never a number, for a token with a           *)
(* non-numeric part, an empty part, a single part or more than three parts.  *)

\* The parts written in digits, with the numbers they spell
Spelled == ("0" :> 0) @@ ("00" :> 0) @@ ("1" :> 1) @@ ("21" :> 21) @@ ("37" :> 37)

Parsing(p) == args[p].kind \in TimeFns /\ pc[p] # "idle"

WellFormed(val) ==
    Len(val) \in {2, 3} /\ \A i \in 1..Len(val) : val[i] \in DOMAIN Spelled

Malformed(val) ==
    \/ Len(val) = 1
    \/ Len(val) > 3
    \/ \E i \in 1..Len(val) : val[i] \notin DOMAIN Spelled

C25_ParseTime ==
    \A p \in Procs :
        Parsing(p)
        => LET val == args[p].text
               seconds == loc[p].seconds
           IN  /\ (WellFormed(val) /\ Len(val) = 3)
                     => seconds = Spelled[val[1]] * 3600 + Spelled[val[2]] * 60
                                    + Spelled[val[3]]
               /\ (WellFormed(val) /\ Len(val) = 2)
                     => seconds = Spelled[val[1]] * 60 + Spelled[val[2]]
               /\ val = <<"1", "21", "37">> => seconds = 4897
               /\ val = <<"21", "37">> => seconds = 1297
               /\ Malformed(val) => seconds = Null

---------------------------------------------------------------------------
(* C26: for every valid time string without centiseconds, the zero duration  *)
(* and durations under one hour included, parsing the text that fmtTime      *)
(* makes of its seconds gives the same number of seconds again.              *)

C26_RoundTrip ==
    \A p \in Procs :
        (Parsing(p) /\ pc[p] = "done" /\ WellFormed(args[p].text))
        => loc[p].reparsed = loc[p].seconds

---------------------------------------------------------------------------
(* C29: discovery probes the candidate list names one at a time in their     *)
(* fixed order; the list name it returns is the earliest candidate whose     *)
(* probe returned non-empty data, the field layout and the contest filter it *)
(* returns are those of that probe, and no later candidate is probed.        *)

Discovering(p) == args[p].entry = "importRaceResult" /\ UsesDiscovery(args[p])

\* The probes of the invocation, in the order they were sent
Probes(p) == SelectSeq(reqLog[p], LAMBDA r : r.op = "probe")

\* discoverEvent has returned
Discovered(p) ==
    /\ Discovering(p)
    /\ Probes(p) # <<>>
    /\ pc[p] # "discover"
    /\ ~(result[p].threw /\ result[p].at = "discovery")

C29_Discovery ==
    \A p \in Procs :
        Discovering(p)
        => LET probes == Probes(p)
               n == Len(probes)
           IN  /\ \A k \in 1..n : probes[k].arg = k
               /\ \A k \in 1..(n - 1) : probes[k].len <= 0
               /\ Discovered(p)
                     => /\ probes[n].len > 0
                        /\ loc[p].listname = candidates[probes[n].arg]
                        /\ loc[p].dataFields = probes[n].DataFields
                        /\ loc[p].groupFilters = probes[n].groupFilters
                        /\ probes[n].arg \in args[p].lists
                        /\ \A c \in args[p].lists : c < probes[n].arg
                              => probes[c].len < 0

\* the second candidate's probe throws and the fourth is returned
C29_Witness ==
    \E p \in Procs :
        /\ Discovered(p)
        /\ args[p].lists = {2, 4}
        /\ Len(Probes(p)) = 4
        /\ Probes(p)[2].len < 0
        /\ loc[p].listname = "Results|Final"
        /\ loc[p].dataFields = 4

---------------------------------------------------------------------------
(* C30: for each contest the crawl requests pages 1, 2, 3, ... and stops     *)
(* exactly at the first page on which fewer rows than the page size were     *)
(* returned or on which page times page size has reached the total of the    *)
(* page's sentinel; contests are crawled in the order of the contest filter  *)
(* and every contest takes a bounded number of pages.                        *)

\* The list requests of the invocation that were answered, in order
ListPages(p) == SelectSeq(reqLog[p], LAMBDA r : r.op = "list" /\ r.len >= 0)

\* The position in the contest filter of the contest page k was asked for
ContestOfPage(pages, k) == Cardinality({j \in 1..k : pages[j].arg = 1})

\* The stop condition on what the page returned
LastPage(page, d) ==
    \/ Len(page.rows) < RR_PAGE_SIZE
    \/ page.arg * RR_PAGE_SIZE >= TotalInPage(d)

C30_Pagination ==
    \A p \in Procs :
        (args[p].entry = "importRaceResult" /\ pc[p] # "discover")
        => LET pages == ListPages(p)
               n == Len(pages)
               contests == ContestsOf(loc[p].groupFilters)
           IN  /\ n > 0 => pages[1].arg = 1
               /\ \A k \in 1..n :
                     LET c == ContestOfPage(pages, k)
                         d == contests[c]
                     IN  /\ c <= Len(contests)
                         /\ \A r \in Range(pages[k].rows) : r.grp = d.name
                         /\ pages[k].arg <= d.rows \div RR_PAGE_SIZE + 1
                         /\ IF LastPage(pages[k], d)
                            THEN /\ k < n => pages[k + 1].arg = 1
                                 /\ k = n => (loc[p].crawled \/ loc[p].contest = c + 1)
                            ELSE /\ k < n => pages[k + 1].arg = pages[k].arg + 1
                                 /\ k = n => (~loc[p].crawled /\ loc[p].contest = c
                                               /\ (pc[p] = "rr_fetch" \/ result[p].threw))

---------------------------------------------------------------------------
(* C27: over any getStreams calls for one activity, in sequence or           *)
(* overlapping, Strava answers at most one request for the streams of that   *)
(* activity; a call made once a streams row is stored returns that row       *)
(* without a Strava request, and there is at most one row per activity.      *)

\* The answered requests for the streams of activity a
StreamsAnswered(a) ==
    {k \in 1..Len(strava) : strava[k].op = "streams" /\ strava[k].arg = a /\ strava[k].ok}

\* The requests Strava received from the invocation of p
RequestsOf(p) == SelectSeq(strava, LAMBDA r : r.inv = args[p].inv)

StoredAtCall(p) == {r \in snap[p].streams : r.activity_id = args[p].activityId}

CacheHits ==
    \A p \in Procs :
        (args[p].entry = "getStreams" /\ StoredAtCall(p) # {})
        => /\ RequestsOf(p) = <<>>
           /\ pc[p] = "done" => /\ result[p].ok /\ result[p].cached
                                /\ result[p].streams = StoredAtCall(p)

OneRowPerActivity ==
    \A r1, r2 \in streams : r1.activity_id = r2.activity_id => r1 = r2

C27_StreamsOnce ==
    /\ \A p \in Procs :
          args[p].entry = "getStreams"
          => Cardinality(StreamsAnswered(args[p].activityId)) <= 1
    /\ CacheHits
    /\ OneRowPerActivity

---------------------------------------------------------------------------
(* C28: every activities request of a sync carries the athlete's             *)
(* last_sync_at as `after` (none when it is unset), last_sync_at is written  *)
(* only after every page was fetched and stored, and a sync in which any     *)
(* Strava request failed leaves last_sync_at as it was.                      *)

Syncing(p) == args[p].entry = "syncActivities"

PagesOf(p) == SelectSeq(RequestsOf(p), LAMBDA r : r.op = "activities")

\* last_sync_at was written by the invocation of p
WroteLastSync(p) == athletes[ATHLETE].synced_by = args[p].inv

Stored(id) == \E r \in activities : r.strava_id = id

AfterLastSync ==
    \A p \in Procs :
        Syncing(p)
        => \A k \in 1..Len(PagesOf(p)) :
              /\ PagesOf(p)[k].page = k
              /\ PagesOf(p)[k].after = args[p].athlete.last_sync_at

WrittenAfterAllPages ==
    \A p \in Procs :
        (Syncing(p) /\ WroteLastSync(p))
        => LET pages == PagesOf(p)
               n == Len(pages)
           IN  /\ n >= 1
               /\ \A k \in 1..n : pages[k].ok
               /\ Len(ActivitiesPage(args[p].total, n)) < PER_PAGE
               /\ \A k \in 1..args[p].total :
                     Activity(k, args[p].total).isRun => Stored(k)

C28_LastSync ==
    /\ AfterLastSync
    /\ WrittenAfterAllPages
    /\ \A p \in Procs :
          (Syncing(p) /\ \E k \in 1..Len(RequestsOf(p)) : ~RequestsOf(p)[k].ok)
          => ~WroteLastSync(p)

---------------------------------------------------------------------------
(* C31: extraction makes no finisher of a single-element total-count row and *)
(* none of a row of a sub-group without a label, so a competitor listed in   *)
(* an unnamed and in a named sub-group of one page is emitted exactly once.  *)

Extracting(p) == args[p].entry = "extractFinishers" /\ pc[p] = "done"

\* How often (contest, bib) is listed with a name in the sub-groups of the
\* page of p that carry a label
ListedNamed(p, contest, bib) ==
    LET data == args[p].source
    IN  Cardinality({x \in (1..Len(data)) \X (1..4) \X (1..4) :
            /\ data[x[1]].key.label = contest
            /\ x[2] <= Len(data[x[1]].subGroups)
            /\ data[x[1]].subGroups[x[2]].key.label # ""
            /\ x[3] <= Len(data[x[1]].subGroups[x[2]].rows)
            /\ ~data[x[1]].subGroups[x[2]].rows[x[3]].single
            /\ data[x[1]].subGroups[x[2]].rows[x[3]].bib = bib
            /\ data[x[1]].subGroups[x[2]].rows[x[3]].name # NoName})

Emitted(p, contest, bib) ==
    Cardinality({k \in 1..Len(loc[p].finishers) :
                    /\ loc[p].finishers[k].grp = contest
                    /\ loc[p].finishers[k].bib = bib})

C31_Extraction ==
    \A p \in Procs :
        Extracting(p)
        => \A contest \in {"Run", "Walk"}, bib \in {"0", "1", "2", "3"} :
              Emitted(p, contest, bib) = ListedNamed(p, contest, bib)

\* "Ana" is listed with her name in the unnamed and in the Female sub-group
C31_Witness ==
    \E p \in Procs :
        /\ Extracting(p)
        /\ \E g \in Range(args[p].source[1].subGroups) :
              g.key.label = "" /\ \E r \in Range(g.rows) : ~r.single /\ r.name = "Ana"
        /\ \E g \in Range(args[p].source[1].subGroups) : g.key.label = "Female"
        /\ Emitted(p, "Run", "1") = 1

---------------------------------------------------------------------------
(* C32: each data row of a race goes to the one section map its section      *)
(* names. As claimed: the rows under an "overall" sub-section header set the *)
(* overall rank of their bib, the rows of a gender-only section its gender   *)
(* rank, the rows of an age-group or Open section create its age-group       *)
(* record. As the parser does it: the overall ranks come from the rows that  *)
(* follow the race header itself, and the rows under an "overall" header     *)
(* create age-group records like those of an age-group or Open section.      *)

Bibs == {"1", "2", "3"}

\* What the last header line before line i of a text is, read off its text:
\* "race", "overall", "gender", "agegroup", "open", or "" when there is none
OpenedBy(text, i) ==
    LET S == {j \in 1..(i - 1) :
                 ~text[j].row /\ text[j].text \in
                     RaceLabels \cup {"overall", "Female", "Male", "Open F", "Open M"}
                         \cup {g \o " " \o r : g \in Genders, r \in AgeRanges}}
        h == CHOOSE j \in S : \A k \in S : k <= j
    IN  IF S = {} THEN ""
        ELSE IF text[h].text \in RaceLabels THEN "race"
        ELSE IF text[h].text = "overall" THEN "overall"
        ELSE IF text[h].text \in Genders THEN "gender"
        ELSE IF text[h].text \in {"Open F", "Open M"} THEN "open"
        ELSE "agegroup"

\* The race key of the last race header before line i, "" when there is none
RaceOf(text, i) ==
    LET S == {j \in 1..(i - 1) : ~text[j].row /\ text[j].text \in RaceLabels}
    IN  IF S = {} THEN ""
        ELSE RaceKeyOf(text[CHOOSE j \in S : \A k \in S : k <= j].text)

\* The data rows of a race that stand in a section of one of the kinds
RowsIn(text, key, kinds) ==
    {i \in 1..Len(text) :
        /\ text[i].row /\ text[i].times # <<>>
        /\ RaceOf(text, i) = key
        /\ OpenedBy(text, i) \in kinds}

\* The bibs of a map are the bibs of the rows
HoldsBibsOf(m, text, rows) ==
    \A b \in Bibs : MapHas(m, b) <=> \E i \in rows : text[i].bib = b

---------------------------------------------------------------------------
(* C33: a race header makes its race current and resets the section state,   *)
(* so no row after it gets the gender or the age-group label of a section of *)
(* the race before; header lines make no record and the rows before the      *)
(* first race header make none. As claimed the section type goes back to its *)
(* initial value; the parser starts it as null and sets it to 'overall' at   *)
(* every race header.                                                        *)

\* The variables right after line j of a text
VarsAfter(text, j) == parseHeader(VarsAt(text, j), text[j])

\* The last header line before line i, read off the text, 0 when there is none
OpenerOf(text, i) ==
    LET S == {j \in 1..(i - 1) :
                 ~text[j].row /\ text[j].text \in
                     RaceLabels \cup {"overall", "Female", "Male", "Open F", "Open M"}
                         \cup {g \o " " \o r : g \in Genders, r \in AgeRanges}}
    IN  IF S = {} THEN 0 ELSE CHOOSE j \in S : \A k \in S : k <= j

\* The gender and the age-group label a section header names
GenderOfHeader(h) ==
    IF h \in {"overall"} \cup RaceLabels THEN Null
    ELSE IF h \in {"Female", "Open F"} \cup {"Female " \o r : r \in AgeRanges} THEN 2
    ELSE 1

LabelOfHeader(h) ==
    IF h = "overall" THEN "Overall" ELSE IF h \in Genders \cup RaceLabels THEN "" ELSE h

\* Every record of the maps of a race is made of a data row that stands
\* under a header of that race, with the gender and label of that header
FromOwnSections(text, maps, key) ==
    /\ \A k \in 1..Len(maps.agegroup) :
          LET f == maps.agegroup[k].value
          IN  \E i \in RowsIn(text, key, {"agegroup", "open", "overall"}) :
                 /\ f.bib = text[i].bib /\ f.ageGroupRank = text[i].rank
                 /\ f.gender = GenderOfHeader(text[OpenerOf(text, i)].text)
                 /\ f.ageGroup = (IF text[i].inline # "" THEN text[i].inline
                                  ELSE LabelOfHeader(text[OpenerOf(text, i)].text))
    /\ \A b \in Bibs :
          /\ MapHas(maps.overall, b) \/ MapHas(maps.gender, b) \/ MapHas(maps.agegroup, b)
             => \E i \in 1..Len(text) :
                   text[i].row /\ text[i].bib = b /\ RaceOf(text, i) = key

ResetTo(text, sectionType) ==
    \A j \in 1..Len(text) :
        (~text[j].row /\ text[j].text \in RaceLabels)
        => VarsAfter(text, j) =
              [currentRace |-> RaceKeyOf(text[j].text), sectionType |-> sectionType,
               gender |-> Null, ageGroup |-> ""]

---------------------------------------------------------------------------
(* C34: the parser's output has at most one record per bib per race, and the *)
(* age-group record of a bib is the one built from the first row of the bib  *)
(* in the age-group sections of the race: a later age-group row of the same  *)
(* bib leaves the stored record as it was, in every field.                   *)

AgeGroupRows(text, key) == RowsIn(text, key, {"agegroup", "open", "overall"})

\* The record an age-group row makes, read off the text
RecordOfRow(text, i) ==
    [bib |-> text[i].bib,
     name |-> IF text[i].name = text[i].bib THEN NoName ELSE text[i].name,
     gender |-> GenderOfHeader(text[OpenerOf(text, i)].text),
     ageGroup |-> IF text[i].inline # "" THEN text[i].inline
                  ELSE LabelOfHeader(text[OpenerOf(text, i)].text),
     ageGroupRank |-> text[i].rank,
     chipTimeS |-> parseTime(text[i].times[Len(text[i].times)])]

\* The age-group rows of a race that are not the first of their bib
LaterRows(text, key) ==
    {j \in AgeGroupRows(text, key) :
        \E i \in AgeGroupRows(text, key) : i < j /\ text[i].bib = text[j].bib}

C34_FirstWins ==
    \A p \in Procs :
        args[p].entry = "main"
        => \A r \in 1..Len(RaceKeys) :
              LET text == args[p].text
                  ag == args[p].source[r].agegroup
                  fs == buildFinishers(args[p].source[r])
                  rows == AgeGroupRows(text, RaceKeys[r])
              IN  /\ \A b \in Bibs :
                        /\ Cardinality({k \in 1..Len(ag) : ag[k].key = b}) <= 1
                        /\ Cardinality({k \in 1..Len(fs) : fs[k].bib = b}) <= 1
                  /\ \A i \in rows \ LaterRows(text, RaceKeys[r]) :
                        /\ MapHas(ag, text[i].bib)
                        /\ MapGet(ag, text[i].bib) = RecordOfRow(text, i)
                  /\ \A j \in LaterRows(text, RaceKeys[r]) :
                        parsePDF(SubSeq(text, 1, j))[r].agegroup
                            = parsePDF(SubSeq(text, 1, j - 1))[r].agegroup

\* Bib 2 stands twice under "Male 70+", ranks 2 and 3, and its record is the
\* one of rank 2
C34_Witness ==
    \E p \in Procs :
        /\ args[p].entry = "main" /\ pc[p] = "done"
        /\ \E j \in LaterRows(args[p].text, "hm") :
              /\ args[p].text[j].bib = "2" /\ args[p].text[j].rank = 3
              /\ OpenerOf(args[p].text, j) # 0
              /\ args[p].text[OpenerOf(args[p].text, j)].text = "Male 70+"
        /\ MapGet(args[p].source[1].agegroup, "2").ageGroupRank = 2
        /\ MapGet(args[p].source[1].agegroup, "2").chipTimeS = 7500

---------------------------------------------------------------------------
(* C35: a row whose name field is its bib has no name; when some section of  *)
(* the race gives the bib a name, the merged record of the bib carries that  *)
(* name, in whatever order the sections stand, and when none does the bib is *)
(* not among the merged records.                                             *)

\* The names the rows of a race give a bib, in any section
NamesOf(text, key, bib) ==
    {text[i].name : i \in {j \in RowsIn(text, key, {"race", "gender", "agegroup",
                                                     "open", "overall"}) :
                              /\ text[j].bib = bib
                              /\ text[j].name # bib /\ text[j].name # ""}}

C35_Names ==
    \A p \in Procs :
        args[p].entry = "main"
        => \A r \in 1..Len(RaceKeys), b \in Bibs :
              LET fs == buildFinishers(args[p].source[r])
                  named == NamesOf(args[p].text, RaceKeys[r], b)
              IN  /\ named # {}
                     => \E k \in 1..Len(fs) : fs[k].bib = b /\ fs[k].name \in named
                  /\ named = {}
                     => \A k \in 1..Len(fs) : fs[k].bib # b

---------------------------------------------------------------------------
(* C36: the batched insert does what one insert of the whole list would: for *)
(* n >= 1 finishers the batches are the consecutive slices of BATCH rows     *)
(* (the last one shorter when n is no multiple), each finisher is inserted   *)
(* once and in list order, in ceil(n / BATCH) statements, all under the id   *)
(* of the event row the invocation has just inserted.                        *)

\* The rows a statement writes for the finishers a+1 .. b of p's list
RowsFor(p, a, b) ==
    {[race_event_id |-> loc[p].raceEventId, src |-> loc[p].finishers[k],
      by |-> args[p].inv, athlete_id |-> 0] :
        k \in (a + 1)..Min(b, Len(loc[p].finishers))}

\* A step of p's batch loop that is an INSERT the database accepts
InsertsBatch(p) ==
    /\ pc[p] = "insert_batch"
    /\ ~(pc'[p] = "done" /\ result'[p].threw)

C36_Batches ==
    [][\A p \in Procs :
          InsertsBatch(p)
          => /\ Len(loc[p].finishers) >= 1
             /\ loc[p].i < Len(loc[p].finishers)
             /\ loc[p].i % BATCH = 0 /\ loc[p].inserted = loc[p].i
             /\ \E e \in race_events : e.id = loc[p].raceEventId /\ e.imported_at = args[p].inv
             /\ RowsFor(p, 0, loc[p].i) \subseteq race_finishers
             /\ RowsFor(p, loc[p].i, Len(loc[p].finishers)) \cap race_finishers = {}
             /\ race_finishers' = race_finishers \cup RowsFor(p, loc[p].i, loc[p].i + BATCH)
             /\ Cardinality(RowsFor(p, loc[p].i, loc[p].i + BATCH))
                   = Min(BATCH, Len(loc[p].finishers) - loc[p].i)
             /\ (loc[p].i + BATCH >= Len(loc[p].finishers))
                   <=> (pc'[p] # "insert_batch" \/ loc'[p].raceEventId # loc[p].raceEventId)
             /\ (loc[p].i + BATCH >= Len(loc[p].finishers))
                   => /\ (loc[p].i + BATCH) \div BATCH
                            = (Len(loc[p].finishers) + BATCH - 1) \div BATCH
                      /\ {f \in race_finishers' : f.race_event_id = loc[p].raceEventId}
                            = RowsFor(p, 0, Len(loc[p].finishers))
             /\ (loc[p].i + BATCH < Len(loc[p].finishers))
                   => /\ loc'[p].i = loc[p].i + BATCH
                      /\ loc'[p].inserted = loc[p].i + BATCH
                      /\ loc'[p].finishers = loc[p].finishers
    ]_vars

\* An import of 100 finishers and one of 37 have gone through their batches
C36_Witness ==
    \E p \in Procs :
        /\ pc[p] = "done" /\ result[p].ok /\ args[p].kind = "sporthive"
        /\ loc[p].i = 2 * BATCH /\ loc[p].inserted = 2 * BATCH
        /\ Cardinality({f \in race_finishers : f.race_event_id = loc[p].raceEventId})
              = 2 * BATCH

---------------------------------------------------------------------------
(* C37: every finisher row an import writes has no athlete link; only the    *)
(* claim request sets one. So when a replace import of a pair has returned,  *)
(* every finisher of the pair is unclaimed, whatever was claimed among the   *)
(* finishers of the import it replaced.                                      *)

\* The pair an import has worked on last, and its finishers in a table
ImportedRaceId(p) == IF args[p].kind = "pdf" THEN "hm" ELSE args[p].raceId

FinishersOfPair(p, events, finishers) ==
    FinishersOf(finishers, EventsOf(events, args[p].eventId, ImportedRaceId(p)))

C37_Unclaimed ==
    [][\A p \in Procs :
          /\ (\A q \in Procs : pc[q] # "claim_update")
             => \A f \in race_finishers' \ race_finishers : f.athlete_id = 0
          /\ (args'[p].kind \notin {"claim", ""} /\ pc'[p] = "done" /\ result'[p].ok
                /\ args'[p].replace /\ pc[p] # "done")
             => \A f \in FinishersOfPair(p, race_events', race_finishers') :
                   f.athlete_id = 0
    ]_vars

\* A replace import has returned; a finisher of the import before it was
\* claimed, and none of the pair is now
C37_Witness ==
    \E p \in Procs :
        /\ args[p].kind \notin {"claim", ""} /\ args[p].replace
        /\ pc[p] = "done" /\ result[p].ok /\ ~result[p].already_imported
        /\ \E f \in FinishersOfPair(p, snap[p].events, snap[p].finishers) :
              f.athlete_id = ATHLETE
        /\ FinishersOfPair(p, race_events, race_finishers) # {}
        /\ \A f \in FinishersOfPair(p, race_events, race_finishers) : f.athlete_id = 0

---------------------------------------------------------------------------
(* C38: two imports of one pair that overlap, both with replace or both      *)
(* started when the pair had no import: once both have ended there is at     *)
(* most one RaceEvent row of the pair, the finishers under it were all       *)
(* written by one invocation and no finisher is without its event row; and   *)
(* an invocation that returns ok has all of its finishers in storage.        *)

\* p and q import the same pair, both with replace or both called when the
\* pair had no event row
SamePair(p, q) ==
    /\ p # q
    /\ Importing(p) /\ Importing(q)
    /\ args[p].eventId = args[q].eventId /\ args[p].raceId = args[q].raceId
    /\ \/ args[p].replace /\ args[q].replace
       \/ SnapPairEvents(p) = {} /\ SnapPairEvents(q) = {}

\* The step is the return of p's import with ok true after its inserts
ReturnsOk(p) ==
    /\ pc[p] = "insert_batch" /\ pc'[p] = "done"
    /\ result'[p].ok /\ ~result'[p].already_imported

C38_Overlap ==
    [][\A p, q \in Procs :
          SamePair(p, q)
          => /\ (pc'[p] = "done" /\ pc'[q] = "done")
                => /\ Cardinality(EventsOf(race_events', args[p].eventId, args[p].raceId)) <= 1
                   /\ \A f, g \in FinishersOf(race_finishers',
                                    EventsOf(race_events', args[p].eventId, args[p].raceId)) :
                         f.by = g.by
                   /\ \A f \in race_finishers' :
                         \E e \in race_events' : e.id = f.race_event_id
             /\ ReturnsOk(p)
                => \A k \in 1..Len(loc'[p].finishers) :
                      \E f \in race_finishers' :
                         /\ f.by = args[p].inv /\ f.src = loc'[p].finishers[k]
                         /\ f.race_event_id = result'[p].race_event_id
    ]_vars

---------------------------------------------------------------------------
(* C39: within one syncActivities call, once the token has been refreshed no *)
(* later request of the call asks for another refresh, and a token that is   *)
(* valid for more than 60 seconds is never refreshed.                        *)

\* The refresh requests in Strava's log that the sync invocation inv made
SyncRefreshes(inv) ==
    {k \in 1..Len(strava) :
        /\ strava[k].inv = inv /\ strava[k].op = "token"
        /\ strava[k].arg \in {"activities", "gear"}}

C39_RefreshOnce ==
    /\ \A k \in 1..Len(strava) :
          (k \in SyncRefreshes(strava[k].inv) /\ strava[k].ok)
          => \A j \in SyncRefreshes(strava[k].inv) : j <= k
    /\ \A p \in Procs :
          (args[p].kind = "strava" /\ ~args[p].athlete.expired)
          => \A k \in 1..Len(strava) :
                strava[k].inv = args[p].inv => strava[k].op # "token"

---------------------------------------------------------------------------
(* C40: the PDF batch has no already-imported outcome: where an event row of *)
(* (event id, race key) exists it deletes that row and its finishers and     *)
(* inserts anew, so a second run on the same text leaves one RaceEvent per   *)
(* race with the finisher records the first run left.                        *)

\* The records stored for race r of the batch in a pair of tables
PdfRecords(events, finishers, r) ==
    {f.src : f \in FinishersOf(finishers, PdfEvents(events, r))}

\* The batch of p has run again on the text of its first run and has ended
RanTwice(p) ==
    /\ args[p].entry = "main" /\ args[p].inv = 2
    /\ pc[p] = "done"

C40_Rerun ==
    \A p \in Procs :
        /\ args[p].entry = "main" => ~result[p].already_imported
        /\ RanTwice(p)
           => \A r \in 1..Len(RaceKeys) :
                 IF MergedCount(p, r) = 0
                 THEN PdfEvents(race_events, r) = {} /\ PdfEvents(snap[p].events, r) = {}
                 ELSE /\ Cardinality(PdfEvents(race_events, r)) = 1
                      /\ Cardinality(PdfEvents(snap[p].events, r)) = 1
                      /\ PdfEvents(race_events, r) \cap PdfEvents(snap[p].events, r) = {}
                      /\ \A e \in PdfEvents(race_events, r) : e.imported_at = 2
                      /\ \A f \in FinishersOf(race_finishers, PdfEvents(race_events, r)) :
                            f.by = 2
                      /\ FinishersOf(race_finishers, PdfEvents(snap[p].events, r)) = {}
                      /\ PdfRecords(race_events, race_finishers, r)
                            = PdfRecords(snap[p].events, snap[p].finishers, r)
                      /\ PdfRecords(race_events, race_finishers, r)
                            = Range(buildFinishers(args[p].source[r]))

\* A text with finishers in both races has been imported twice
C40_Witness ==
    \E p \in Procs :
        /\ RanTwice(p) /\ result[p].ok
        /\ \A r \in 1..Len(RaceKeys) :
              /\ MergedCount(p, r) > 0
              /\ PdfRecords(snap[p].events, snap[p].finishers, r) # {}
              /\ \A e \in PdfEvents(race_events, r) : e.imported_at = 2

====
